---- MODULE Spec2Model ----
(***************************************************************************)
(* Travel-booking REST API: accounts, JWT authentication, bookings.        *)
(*                                                                         *)
(* The store (MongoDB collections `users` and `bookings`) is the only      *)
(* shared state.  Every request runs in its own slot; a handler is cut     *)
(* into steps at the awaits that touch the store, so that requests         *)
(* interleave exactly where the event loop lets them.                      *)
(***************************************************************************)
EXTENDS Integers, Sequences, FiniteSets, TLC

VARIABLES
  users,      \* users collection: _id -> user document
  bookings,   \* bookings collection: _id -> booking document
  nextId,     \* next fresh user _id (ObjectIds are never reused)
  jwtSecret,  \* TRUE iff process.env.JWT_SECRET is set
  req,        \* request slot -> request in flight (or answered)
  cancelOk,   \* history: booking _id -> number of cancel requests answered 200
  mockRestaurants,  \* the in-memory reference list of routes/restaurants
  nodeEnv     \* process.env.NODE_ENV

vars == <<users, bookings, nextId, jwtSecret, req, cancelOk, mockRestaurants, nodeEnv>>

----------------------------------------------------------------------------
(* Bounds *)

NReq == 2          \* request slots (requests in flight at once)
MaxUsers == 3      \* user _ids that can ever be allocated
MaxBookings == 2   \* stored bookings

Reqs == 1..NReq
BookingIds == 1..MaxBookings

----------------------------------------------------------------------------
(* Values *)

MinPasswordLen == 6

\* A password is a sequence of character classes: u(pper), l(ower), d(igit).
PwA == <<"u", "l", "d", "l", "l", "l">>
PwB == <<"u", "l", "d", "d", "l", "l">>
PwShort == <<"u", "l", "d">>
PwNoDigit == <<"u", "l", "l", "l", "l", "l">>
PwEmpty == <<>>

SeqHas(s, c) == \E i \in 1..Len(s) : s[i] = c

\* bcrypt.hash: one-way; the stored value is never the entered secret.
Hash(pw) == [bcrypt |-> pw]

\* UserSchema.methods.comparePassword
ComparePassword(entered, stored) == Hash(entered) = stored

\* An e-mail address as entered: a local part and whether it has the
\* shape local@domain.tld that isEmail() accepts.
LowerCase(c) == CASE c = "A" -> "a" [] c = "B" -> "b" [] OTHER -> c
NormalizeEmail(e) == [e EXCEPT !.local = LowerCase(e.local)]
IsEmail(e) == e.wellFormed
RawEmails == [local : {"a", "A", "b", "c"}, wellFormed : {TRUE}]
               \cup {[local |-> "a", wellFormed |-> FALSE]}
EmailA == [local |-> "a", wellFormed |-> TRUE]
EmailB == [local |-> "b", wellFormed |-> TRUE]

Statuses == {"pending", "confirmed", "cancelled", "completed"}
Terminal == {"cancelled", "completed"}
Active == {"pending", "confirmed"}

\* Documents are records; a field that is not selected is absent.
NoDoc == [null |-> TRUE]
Without(d, fields) == [k \in DOMAIN d \ fields |-> d[k]]
Select(d, fields) == [k \in DOMAIN d \cap fields |-> d[k]]

DefaultPreferences == [currency |-> "USD", language |-> "en", notifications |-> TRUE]

\* new User({...}) after the pre-save hook: schema defaults applied,
\* password replaced by its hash.
NewUser(id, first, email, pw) ==
  [_id |-> id, firstName |-> first, email |-> email, password |-> Hash(pw),
   preferences |-> DefaultPreferences, role |-> "user", __v |-> 0]

BookingTypes == {"flight", "hotel", "car", "restaurant"}
BookingType(b) ==
  CASE b = 1 -> "flight" [] b = 2 -> "hotel" [] b = 3 -> "car" [] OTHER -> "restaurant"

\* A text is the sequence of its characters.
UpperCaseLetters ==
  <<"A", "B", "C", "D", "E", "F", "G", "H", "I", "J", "K", "L", "M", "N", "O", "P", "Q", "R", "S", "T", "U", "V", "W", "X", "Y", "Z">>
LowerCaseLetters ==
  <<"a", "b", "c", "d", "e", "f", "g", "h", "i", "j", "k", "l", "m", "n", "o", "p", "q", "r", "s", "t", "u", "v", "w", "x", "y", "z">>

\* String.prototype.toLowerCase
ToLowerCase(t) ==
  [i \in DOMAIN t |->
     IF \E k \in DOMAIN UpperCaseLetters : UpperCaseLetters[k] = t[i]
     THEN LowerCaseLetters[CHOOSE k \in DOMAIN UpperCaseLetters : UpperCaseLetters[k] = t[i]]
     ELSE t[i]]

\* String.prototype.includes: part occurs in t
Includes(t, part) ==
  \E i \in 0..(Len(t) - Len(part)) : SubSeq(t, i + 1, i + Len(part)) = part

\* String.prototype.toUpperCase
ToUpperCase(t) ==
  [i \in DOMAIN t |->
     IF \E k \in DOMAIN LowerCaseLetters : LowerCaseLetters[k] = t[i]
     THEN UpperCaseLetters[CHOOSE k \in DOMAIN LowerCaseLetters : LowerCaseLetters[k] = t[i]]
     ELSE t[i]]

\* Number.prototype.toString(36)
Radix == 36
Digits == <<"0", "1", "2", "3", "4", "5", "6", "7", "8", "9">> \o LowerCaseLetters
RECURSIVE ToString36(_)
ToString36(n) ==
  IF n < Radix THEN <<Digits[n + 1]>>
  ELSE ToString36(n \div Radix) \o <<Digits[(n % Radix) + 1]>>

\* The characters of a booking type.
TypeText(type) ==
  CASE type = "flight" -> <<"f", "l", "i", "g", "h", "t">>
    [] type = "hotel" -> <<"h", "o", "t", "e", "l">>
    [] type = "car" -> <<"c", "a", "r">>
    [] OTHER -> <<"r", "e", "s", "t", "a", "u", "r", "a", "n", "t">>

\* `${this.type.toUpperCase()}-${timestamp}-${random}`.toUpperCase(), with
\* timestamp = now.toString(36) and random the digits Math.random() gave.
GenerateReference(type, now, random) ==
  ToUpperCase(ToUpperCase(TypeText(type)) \o <<"-">> \o ToString36(now) \o <<"-">> \o random)

\* The reference of a stored booking.
BookingRef(b) == GenerateReference(BookingType(b), b, <<"s", "e", "e", "d", "0">>)
NewBooking(b, owner, status) ==
  [_id |-> b, user |-> owner, type |-> BookingType(b),
   bookingReference |-> BookingRef(b), status |-> status]

ToJSONKeepsPassword(doc) == Without(doc, {"__v"})

\* UserSchema.methods.toJSON
ToJSON(doc) == Without(doc, {"password", "__v"})

\* Tokens: what jwt.verify can tell apart.
NoToken == [uid |-> 0, sig |-> "none", expired |-> FALSE]
Token(uid) == [uid |-> uid, sig |-> "ok", expired |-> FALSE]

\* Authorization header: absent, "Bearer <token>", "Bearer" alone, or another scheme.
NoHeader == [scheme |-> "none", tok |-> NoToken]
Bearer(t) == [scheme |-> "Bearer", tok |-> t]

\* Responses: the JSON envelope and the HTTP status.
NoData == [none |-> TRUE]
NoResp == [status |-> 0, message |-> "", data |-> NoData]
Resp(status, message, data) == [status |-> status, message |-> message, data |-> data]
Err(status, message) == Resp(status, message, NoData)
ValidationErrors == Err(400, "Validation errors")

NoArg == [k \in {} |-> 0]
Idle == [op |-> "none", pc |-> "idle", hdr |-> NoHeader, cookie |-> NoToken,
         arg |-> NoArg, user |-> NoDoc, loc |-> NoDoc, nextCalls |-> 0,
         resp |-> NoResp, sent |-> 0]

InitUsers ==
  [u \in {1, 2} |-> IF u = 1 THEN NewUser(1, "Ann", EmailA, PwA)
                             ELSE [NewUser(2, "Bob", EmailB, PwB) EXCEPT !.role = "admin"]]

----------------------------------------------------------------------------
(* routes/restaurants: the reference list *)

\* Ratings are in tenths of a star.  The coordinates of a restaurant are
\* named by its city.  Fields no handler reads (name, address, contact,
\* openingHours, images, description) are left out.
MockRestaurants == <<
  [id |-> "REST001",
   cuisine |-> <<<<"I", "t", "a", "l", "i", "a", "n">>, <<"M", "e", "d", "i", "t", "e", "r", "r", "a", "n", "e", "a", "n">>>>,
   rating |-> 45,
   priceRange |-> "$$$",
   location |-> [city |-> <<"N", "e", "w", " ", "Y", "o", "r", "k">>, country |-> <<"U", "S", "A">>, coordinates |-> "NewYork"],
   features |-> <<<<"O", "u", "t", "d", "o", "o", "r", " ", "S", "e", "a", "t", "i", "n", "g">>, <<"W", "i", "n", "e", " ", "B", "a", "r">>, <<"R", "o", "m", "a", "n", "t", "i", "c">>, <<"B", "u", "s", "i", "n", "e", "s", "s", " ", "D", "i", "n", "i", "n", "g">>>>],
  [id |-> "REST002",
   cuisine |-> <<<<"J", "a", "p", "a", "n", "e", "s", "e">>, <<"S", "u", "s", "h", "i">>>>,
   rating |-> 48,
   priceRange |-> "$$",
   location |-> [city |-> <<"L", "o", "s", " ", "A", "n", "g", "e", "l", "e", "s">>, country |-> <<"U", "S", "A">>, coordinates |-> "LosAngeles"],
   features |-> <<<<"F", "r", "e", "s", "h", " ", "F", "i", "s", "h">>, <<"S", "u", "s", "h", "i", " ", "B", "a", "r">>, <<"T", "a", "k", "e", "o", "u", "t">>, <<"L", "u", "n", "c", "h", " ", "S", "p", "e", "c", "i", "a", "l", "s">>>>],
  [id |-> "REST003",
   cuisine |-> <<<<"F", "r", "e", "n", "c", "h">>>>,
   rating |-> 43,
   priceRange |-> "$$$$",
   location |-> [city |-> <<"C", "h", "i", "c", "a", "g", "o">>, country |-> <<"U", "S", "A">>, coordinates |-> "Chicago"],
   features |-> <<<<"F", "i", "n", "e", " ", "D", "i", "n", "i", "n", "g">>, <<"W", "i", "n", "e", " ", "C", "e", "l", "l", "a", "r">>, <<"C", "h", "e", "f", "'", "s", " ", "T", "a", "b", "l", "e">>, <<"P", "r", "i", "v", "a", "t", "e", " ", "D", "i", "n", "i", "n", "g">>>>]
>>

----------------------------------------------------------------------------
(* Request plumbing *)

Free(r) == req[r].pc \in {"idle", "done"}

AnsweredAndRunsOn(q, resp) == [q EXCEPT !.resp = resp, !.sent = @ + 1]

\* res.status(..).json(..); return: request q with its response sent (sent
\* counts the responses written for it) and its handler finished.
Answered(q, resp) == [q EXCEPT !.pc = "done", !.resp = resp, !.sent = @ + 1]

\* The request in slot r is answered.
Reply(r, resp) == req' = [req EXCEPT ![r] = Answered(req[r], resp)]

Goto(r, pc) == req' = [req EXCEPT ![r].pc = pc]

At(r, op, pc) == req[r].op = op /\ req[r].pc = pc

StoreUnchanged == UNCHANGED <<users, bookings, nextId, jwtSecret>>

----------------------------------------------------------------------------
(* middleware/auth: authenticate *)

JwtVerifiesIgnoresExpiry(tok, secretSet) == secretSet /\ tok.sig = "ok"

\* jwt.verify(token, process.env.JWT_SECRET): TRUE iff it returns the payload.
JwtVerifies(tok, secretSet) == secretSet /\ tok.sig = "ok" /\ ~tok.expired

\* Token taken from the Authorization header.
HeaderToken(hdr) == IF hdr.scheme = "Bearer" THEN hdr.tok ELSE NoToken

\* Token authenticate uses: the header's, else the `token` cookie.
ExtractToken(hdr, cookie) ==
  IF HeaderToken(hdr) # NoToken THEN HeaderToken(hdr) ELSE cookie

FindUserAsIssued(id) ==
  IF id \in DOMAIN InitUsers THEN Without(InitUsers[id], {"password"}) ELSE NoDoc

\* User.findById(id).select('-password')
FindUserNoPassword(id) ==
  IF id \in DOMAIN users THEN Without(users[id], {"password"}) ELSE NoDoc

AuthNoToken == Err(401, "Access denied. No token provided.")
AuthInvalid == Err(401, "Invalid token.")
AuthNoUser == Err(401, "Token is valid but user no longer exists.")

ProtectedOps == {"cancel", "deleteAccount", "getBookings", "getBooking",
                 "getByReference", "me", "logout", "usersProfile", "authProfile",
                 "preferences", "passport", "dashboard", "listUsers"}

\* The route's next middleware after authenticate.
AfterAuth(op) == IF op = "listUsers" THEN "authorize" ELSE "h0"

\* A request for a protected route arrives in slot r and runs authenticate.
\* Fails: whether the lookup may throw (store unreachable).
Authenticate(r, op, hdr, cookie, arg, Fails) ==
  /\ Free(r)
  /\ op \in ProtectedOps
  /\ LET tok == ExtractToken(hdr, cookie)
         q == [Idle EXCEPT !.op = op, !.hdr = hdr, !.cookie = cookie, !.arg = arg]
         Deny(resp) == req' = [req EXCEPT ![r] = Answered(q, resp)]
     IN
     IF tok = NoToken THEN Deny(AuthNoToken)
     ELSE IF ~JwtVerifies(tok, jwtSecret) THEN Deny(AuthInvalid)
     ELSE \E fail \in Fails :
            IF fail THEN Deny(AuthInvalid)
            ELSE IF FindUserNoPassword(tok.uid) = NoDoc THEN Deny(AuthNoUser)
            ELSE req' = [req EXCEPT ![r] = [q EXCEPT !.user = FindUserNoPassword(tok.uid),
                                                     !.nextCalls = 1,
                                                     !.pc = AfterAuth(op)]]
  /\ StoreUnchanged
  /\ UNCHANGED <<cancelOk, mockRestaurants, nodeEnv>>

----------------------------------------------------------------------------
(* middleware/auth: optionalAuth; routes/auth: GET /auth/me;                *)
(* routes/restaurants: GET /restaurants/search behind optionalAuth          *)

OptionalUserUnverified(tok, fail) ==
  IF tok # NoToken /\ ~fail THEN FindUserNoPassword(tok.uid) ELSE NoDoc

\* The account optionalAuth attaches (NoDoc: none): the inner try block;
\* whatever jwt.verify or the lookup throws is caught and dropped.
OptionalUser(tok, fail) ==
  IF tok # NoToken /\ JwtVerifies(tok, jwtSecret) /\ ~fail
  THEN FindUserNoPassword(tok.uid)
  ELSE NoDoc

\* A request for a route behind optionalAuth arrives and runs the middleware.
OptionalAuth(r, op, hdr, cookie, arg, Fails) ==
  /\ Free(r)
  /\ \E fail \in Fails :
       req' = [req EXCEPT ![r] = [Idle EXCEPT !.op = op, !.hdr = hdr, !.cookie = cookie,
                                              !.arg = arg,
                                              !.user = OptionalUser(HeaderToken(hdr), fail),
                                              !.nextCalls = 1,
                                              !.pc = "h0"]]
  /\ StoreUnchanged
  /\ UNCHANGED <<cancelOk, mockRestaurants, nodeEnv>>

\* Headers and cookies a client may send.
Expired(t) == [t EXCEPT !.expired = TRUE]
Forged(t) == [t EXCEPT !.sig = "bad"]
Malformed == [uid |-> 1, sig |-> "malformed", expired |-> FALSE]
SomeTokens == {Token(1), Token(MaxUsers), Expired(Token(1)), Forged(Token(1)), Malformed}
SomeHeaders == {NoHeader, Bearer(NoToken), [scheme |-> "Basic", tok |-> Token(1)]}
                 \cup {Bearer(t) : t \in SomeTokens}
SomeCookies == {NoToken, Token(1), Token(MaxUsers), Forged(Token(1))}

\* GET /auth/me
Me(r) ==
  /\ At(r, "me", "h0")
  /\ Reply(r, Resp(200, "", [user |-> ToJSON(req[r].user)]))
  /\ StoreUnchanged
  /\ UNCHANGED <<cancelOk, mockRestaurants, nodeEnv>>

StartMeAny(r) ==
  \E hdr \in SomeHeaders, cookie \in SomeCookies :
    Authenticate(r, "me", hdr, cookie, NoArg, BOOLEAN)

StartSearchAny(r) ==
  \E hdr \in SomeHeaders, cookie \in {NoToken, Token(1)}, loc \in {<<>>, <<"P", "a", "r", "i", "s">>} :
    OptionalAuth(r, "search", hdr, cookie, [location |-> loc], BOOLEAN)

----------------------------------------------------------------------------
(* routes/bookings: DELETE /bookings/:id *)

IsMongoId(id) == id > 0

FindBookingAnyOwner(id, owner) ==
  IF id \in DOMAIN bookings THEN bookings[id] ELSE NoDoc

\* Booking.findOne({ _id: id, user: req.user._id })
FindBooking(id, owner) ==
  IF id \in DOMAIN bookings /\ bookings[id].user = owner THEN bookings[id] ELSE NoDoc

BookingNotFound == Err(404, "Booking not found")

CanCancelNoCancelledCheck(status) == status # "completed"
CanCancelNoCompletedCheck(status) == status # "cancelled"

\* The status check of the cancel handler: TRUE iff the booking may be cancelled.
CanCancel(status) == status # "cancelled" /\ status # "completed"

CancelRefusal(status) ==
  IF status = "cancelled" THEN Err(400, "Booking is already cancelled")
  ELSE Err(400, "Cannot cancel a completed booking")

\* Validation, findOne, the status checks, booking.status = 'cancelled'.
CancelFind(r) ==
  /\ At(r, "cancel", "h0")
  /\ LET id == req[r].arg.id
         b == FindBooking(id, req[r].user._id) IN
     IF ~IsMongoId(id) THEN Reply(r, ValidationErrors)
     ELSE IF b = NoDoc THEN Reply(r, BookingNotFound)
     ELSE IF ~CanCancel(b.status) THEN Reply(r, CancelRefusal(b.status))
     ELSE req' = [req EXCEPT ![r].loc = [b EXCEPT !.status = "cancelled"],
                             ![r].pc = "save"]
  /\ StoreUnchanged
  /\ UNCHANGED <<cancelOk, mockRestaurants, nodeEnv>>

CancelSaveUpserts(r) ==
  /\ At(r, "cancel", "save")
  /\ LET id == req[r].loc._id IN
     /\ bookings' = [b \in DOMAIN bookings \cup {id} |->
                       IF b = id THEN req[r].loc ELSE bookings[b]]
     /\ Reply(r, Resp(200, "Booking cancelled successfully", [booking |-> req[r].loc]))
     /\ cancelOk' = [cancelOk EXCEPT ![id] = @ + 1]
  /\ UNCHANGED <<users, nextId, jwtSecret, mockRestaurants, nodeEnv>>

\* booking.save() of a loaded document: $set of the modified path on the
\* stored document with this _id; no document matched is an error.
CancelSave(r) ==
  /\ At(r, "cancel", "save")
  /\ LET id == req[r].loc._id IN
     IF id \in DOMAIN bookings
     THEN /\ bookings' = [bookings EXCEPT ![id].status = req[r].loc.status]
          /\ Reply(r, Resp(200, "Booking cancelled successfully",
                           [booking |-> req[r].loc]))
          /\ cancelOk' = [cancelOk EXCEPT ![id] = @ + 1]
     ELSE /\ Reply(r, Err(500, "Error cancelling booking"))
          /\ UNCHANGED <<bookings, cancelOk>>
  /\ UNCHANGED <<users, nextId, jwtSecret, mockRestaurants, nodeEnv>>

StartCancel(r) ==
  \E u \in DOMAIN InitUsers, id \in 0..MaxBookings :
    Authenticate(r, "cancel", Bearer(Token(u)), NoToken, [id |-> id], {FALSE})

----------------------------------------------------------------------------
(* routes/bookings: GET /bookings, GET /bookings/:id,                       *)
(* GET /bookings/reference/:reference                                       *)

\* A JSON body or a query string is a record of the keys it supplies.
EmptyBody == [k \in {} |-> 0]
Has(a, k) == k \in DOMAIN a

DefaultPage == 1
DefaultLimit == 20
MaxLimit == 100

\* The elements of a set of _ids, newest first (sort({ createdAt: -1 })).
RECURSIVE NewestFirst(_)
NewestFirst(S) ==
  IF S = {} THEN <<>>
  ELSE LET m == CHOOSE x \in S : \A y \in S : y <= x
       IN <<m>> \o NewestFirst(S \ {m})

\* .skip(skip).limit(limit) of a sorted result.
Page(seq, skip, limit) ==
  [i \in 1..(IF Len(seq) - skip < 0 THEN 0
             ELSE IF Len(seq) - skip < limit THEN Len(seq) - skip ELSE limit)
     |-> seq[skip + i]]

CeilDivRoundsDown(total, limit) == total \div limit

\* Math.ceil(total / limit) for total >= 0 and limit # 0
CeilDiv(total, limit) ==
  IF limit > 0 THEN (total + limit - 1) \div limit ELSE 0 - (total \div (0 - limit))

\* .populate('user', 'firstName lastName email')
Populate(b) ==
  [b EXCEPT !.user = IF b.user \in DOMAIN users
                     THEN Select(users[b.user], {"_id", "firstName", "email"})
                     ELSE NoDoc]

\* query('page').optional().isInt({ min: 1 }), query('limit').optional().isInt({ min: 1, max: 100 })
\* query('type') and query('status') optional, isIn their enumerations
GetBookingsValid(a) ==
  /\ Has(a, "page") => a.page >= 1
  /\ Has(a, "limit") => (a.limit >= 1 /\ a.limit <= MaxLimit)
  /\ Has(a, "status") => a.status \in Statuses
  /\ Has(a, "type") => a.type \in BookingTypes

GetBookings(r) ==
  /\ At(r, "getBookings", "h0")
  /\ LET a == req[r].arg
         page == IF Has(a, "page") THEN a.page ELSE DefaultPage
         limit == IF Has(a, "limit") THEN a.limit ELSE DefaultLimit
         match == {b \in DOMAIN bookings :
                     /\ bookings[b].user = req[r].user._id
                     /\ Has(a, "type") => bookings[b].type = a.type
                     /\ Has(a, "status") => bookings[b].status = a.status}
         found == Page(NewestFirst(match), (page - 1) * limit, limit)
     IN
     IF ~GetBookingsValid(a) THEN Reply(r, ValidationErrors)
     ELSE Reply(r, Resp(200, "",
                [bookings |-> [i \in DOMAIN found |-> Populate(bookings[found[i]])],
                 pagination |-> [page |-> page, limit |-> limit,
                                 total |-> Cardinality(match),
                                 totalPages |-> CeilDiv(Cardinality(match), limit)]]))
  /\ StoreUnchanged
  /\ UNCHANGED <<cancelOk, mockRestaurants, nodeEnv>>

GetBooking(r) ==
  /\ At(r, "getBooking", "h0")
  /\ LET id == req[r].arg.id
         b == FindBooking(id, req[r].user._id) IN
     IF ~IsMongoId(id) THEN Reply(r, ValidationErrors)
     ELSE IF b = NoDoc THEN Reply(r, BookingNotFound)
     ELSE Reply(r, Resp(200, "", [booking |-> Populate(b)]))
  /\ StoreUnchanged
  /\ UNCHANGED <<cancelOk, mockRestaurants, nodeEnv>>

GetByReference(r) ==
  /\ At(r, "getByReference", "h0")
  /\ LET match == {b \in DOMAIN bookings :
                     /\ bookings[b].bookingReference = ToUpperCase(req[r].arg.reference)
                     /\ bookings[b].user = req[r].user._id} IN
     IF match = {}
     THEN Reply(r, Err(404, "Booking not found with this reference number"))
     ELSE Reply(r, Resp(200, "", [booking |-> Populate(bookings[CHOOSE b \in match : TRUE])]))
  /\ StoreUnchanged
  /\ UNCHANGED <<cancelOk, mockRestaurants, nodeEnv>>

----------------------------------------------------------------------------
(* routes/users: DELETE /users/account *)

ActiveBookingsPendingOnly(owner) ==
  Cardinality({b \in DOMAIN bookings :
                 bookings[b].user = owner /\ bookings[b].status = "pending"})

\* Booking.countDocuments({ user, status: { $in: ['pending', 'confirmed'] } })
ActiveBookings(owner) ==
  Cardinality({b \in DOMAIN bookings :
                 bookings[b].user = owner /\ bookings[b].status \in Active})

\* Validation, User.findById(..).select('+password'), comparePassword.
DeleteAccountVerify(r) ==
  /\ At(r, "deleteAccount", "h0")
  /\ LET id == req[r].user._id IN
     IF req[r].arg.password = PwEmpty THEN Reply(r, ValidationErrors)
     ELSE IF id \notin DOMAIN users THEN Reply(r, Err(404, "User not found"))
     ELSE IF ~ComparePassword(req[r].arg.password, users[id].password)
          THEN Reply(r, Err(401, "Invalid password"))
     ELSE req' = [req EXCEPT ![r].loc = users[id], ![r].pc = "count"]
  /\ StoreUnchanged
  /\ UNCHANGED <<cancelOk, mockRestaurants, nodeEnv>>

DeleteAccountCount(r) ==
  /\ At(r, "deleteAccount", "count")
  /\ IF ActiveBookings(req[r].user._id) > 0
     THEN Reply(r, Err(400, "Cannot delete account with active bookings. Please cancel or complete all bookings first."))
     ELSE Goto(r, "deleteMany")
  /\ StoreUnchanged
  /\ UNCHANGED <<cancelOk, mockRestaurants, nodeEnv>>

DeleteAccountBookingsOfAll(r) ==
  /\ At(r, "deleteAccount", "deleteMany")
  /\ bookings' = [b \in {} |-> NoDoc]
  /\ Goto(r, "deleteUser")
  /\ UNCHANGED <<users, nextId, jwtSecret, cancelOk, mockRestaurants, nodeEnv>>

\* Booking.deleteMany({ user: req.user._id })
DeleteAccountBookings(r) ==
  /\ At(r, "deleteAccount", "deleteMany")
  /\ bookings' = [b \in {x \in DOMAIN bookings : bookings[x].user # req[r].user._id}
                    |-> bookings[b]]
  /\ Goto(r, "deleteUser")
  /\ UNCHANGED <<users, nextId, jwtSecret, cancelOk, mockRestaurants, nodeEnv>>

\* User.findByIdAndDelete(req.user._id)
DeleteAccountUser(r) ==
  /\ At(r, "deleteAccount", "deleteUser")
  /\ users' = [u \in DOMAIN users \ {req[r].user._id} |-> users[u]]
  /\ Reply(r, Resp(200, "Account deleted successfully", NoData))
  /\ UNCHANGED <<bookings, nextId, jwtSecret, cancelOk, mockRestaurants, nodeEnv>>

StartDeleteAccount(r) ==
  \E u \in DOMAIN InitUsers, pw \in {PwA, PwB, PwEmpty} :
    Authenticate(r, "deleteAccount", Bearer(Token(u)), NoToken, [password |-> pw], {FALSE})

----------------------------------------------------------------------------
(* routes/auth: POST /auth/register, POST /auth/login *)

\* body('password').isLength({ min: 6 }).matches(/^(?=.*[a-z])(?=.*[A-Z])(?=.*\d)/)
StrongPassword(pw) ==
  /\ Len(pw) >= MinPasswordLen
  /\ SeqHas(pw, "l") /\ SeqHas(pw, "u") /\ SeqHas(pw, "d")

\* registerValidation: TRUE iff validationResult(req) is empty.
RegisterValid(first, email, pw) == first # "" /\ IsEmail(email) /\ StrongPassword(pw)

\* loginValidation
LoginValid(email, pw) == IsEmail(email) /\ pw # PwEmpty

\* User.findOne({ email }): the _ids of the stored accounts with this address.
FindByEmail(email) == {u \in DOMAIN users : users[u].email = email}

EmailIndexMissing(email) == TRUE

\* The unique index on email: TRUE iff an insert with this address is accepted.
EmailIndexAllows(email) == FindByEmail(email) = {}

\* Registrations that have passed the lookup and not yet saved.
Registering == {q \in Reqs : req[q].op = "register" /\ req[q].pc = "save"}

RegisterConflict == Err(400, "User with this email already exists")
RegisterFailed == Err(500, "Error creating user account")

\* Arrival, validation (normalizeEmail included) and the lookup by email.
RegisterLookup(r) ==
  \E first \in {"Cy", ""}, raw \in RawEmails, pw \in {PwA, PwShort, PwNoDigit} :
    LET email == NormalizeEmail(raw)
        q == [Idle EXCEPT !.op = "register",
                          !.arg = [firstName |-> first, email |-> email, password |-> pw]]
    IN
    /\ Free(r)
    /\ nextId + Cardinality(Registering) <= MaxUsers
    /\ IF ~RegisterValid(first, raw, pw)
       THEN req' = [req EXCEPT ![r] = Answered(q, ValidationErrors)]
       ELSE IF FindByEmail(email) # {}
       THEN req' = [req EXCEPT ![r] = Answered(q, RegisterConflict)]
       ELSE req' = [req EXCEPT ![r] = [q EXCEPT !.pc = "save"]]
    /\ StoreUnchanged
    /\ UNCHANGED <<cancelOk, mockRestaurants, nodeEnv>>

\* user.save() (pre-save hashing, insert under the unique index), then
\* getSignedJwtToken and the response.
RegisterSave(r) ==
  /\ At(r, "register", "save")
  /\ LET a == req[r].arg
         doc == NewUser(nextId, a.firstName, a.email, a.password) IN
     IF ~EmailIndexAllows(a.email)
     THEN /\ Reply(r, RegisterFailed)
          /\ UNCHANGED <<users, nextId>>
     ELSE /\ users' = [u \in DOMAIN users \cup {nextId} |->
                         IF u = nextId THEN doc ELSE users[u]]
          /\ nextId' = nextId + 1
          /\ IF ~jwtSecret
             THEN Reply(r, RegisterFailed)
             ELSE Reply(r, Resp(201, "User registered successfully",
                                [user |-> ToJSON(doc), token |-> Token(nextId)]))
  /\ UNCHANGED <<bookings, jwtSecret, cancelOk, mockRestaurants, nodeEnv>>

LoginNoUserDistinct == Err(404, "User not found")

\* The answer of login to an address that is not registered.
LoginNoUser == Err(401, "Invalid email or password")

\* The answer of login to a password that does not match.
LoginBadPassword == Err(401, "Invalid email or password")

\* The whole login handler: one lookup, no write.
Login(r) ==
  \E raw \in RawEmails, pw \in {PwA, PwB, PwEmpty} :
    LET email == NormalizeEmail(raw)
        found == FindByEmail(email)
        user == IF found = {} THEN NoDoc ELSE users[CHOOSE u \in found : TRUE]
        q == [Idle EXCEPT !.op = "login", !.loc = user,
                          !.arg = [email |-> email, password |-> pw]]
        Answer(resp) == req' = [req EXCEPT ![r] = Answered(q, resp)]
    IN
    /\ Free(r)
    /\ IF ~LoginValid(raw, pw)
       THEN req' = [req EXCEPT ![r] = Answered([q EXCEPT !.loc = NoDoc], ValidationErrors)]
       ELSE IF user = NoDoc THEN Answer(LoginNoUser)
       ELSE IF ~ComparePassword(pw, user.password) THEN Answer(LoginBadPassword)
       ELSE IF ~jwtSecret THEN Answer(Err(500, "Error during login"))
       ELSE Answer(Resp(200, "Login successful",
                        [user |-> ToJSON(user), token |-> Token(user._id)]))
    /\ StoreUnchanged
    /\ UNCHANGED <<cancelOk, mockRestaurants, nodeEnv>>

----------------------------------------------------------------------------
(* routes/users and routes/auth: profile, preferences, passport, dashboard, *)
(* admin listing, logout                                                    *)

\* Dates are day numbers.  A date string is the day it names when written as
\* a calendar date, WeekDate(day) when written as an ISO 8601 week date
\* (2030-W01), or BadDate, a string that is not an ISO 8601 date.
MaxTime == 2
Times == 1..MaxTime
BadDate == 0
WeekDate(day) == 0 - day

\* isISO8601(): calendar, week and ordinal dates pass.
IsISO8601(s) == s # BadDate

\* new Date(s): the day of a calendar date; Invalid Date for a string the
\* engine's date parser does not read, a week date included.
InvalidDate == 0
NewDate(s) == IF s > 0 THEN s ELSE InvalidDate

\* expiry <= new Date(): a comparison with Invalid Date (NaN) is false.
NotAfter(expiry, now) == expiry # InvalidDate /\ expiry <= now

Currencies == {"USD", "EUR", "GBP", "JPY", "CAD", "AUD"}
Languages == {"en", "es", "fr", "de", "it", "pt", "zh", "ja"}

AllowedAll(body, allowed) == body

\* The keys of a JSON body that are in the handler's allow-list.
Allowed(body, allowed) == Select(body, allowed)

\* The preferences a loaded document shows for a stored preferences object:
\* paths missing in the store read as their schema defaults.
Hydrate(prefs) ==
  [k \in DOMAIN DefaultPreferences |->
     IF k \in DOMAIN prefs THEN prefs[k] ELSE DefaultPreferences[k]]

\* What findByIdAndUpdate throws on: a Date path given Invalid Date (cast
\* error) and, with runValidators, required firstName and the enumerations
\* of the preferences.
UpdateValid(updates) ==
  /\ "passport" \in DOMAIN updates => updates.passport.expiryDate # InvalidDate
  /\ "firstName" \in DOMAIN updates => updates.firstName # ""
  /\ "preferences" \in DOMAIN updates =>
       /\ "currency" \in DOMAIN updates.preferences
            => updates.preferences.currency \in Currencies
       /\ "language" \in DOMAIN updates.preferences
            => updates.preferences.language \in Languages

\* The document after User.findByIdAndUpdate(id, updates): each key is $set.
Updated(doc, updates) ==
  [k \in DOMAIN doc \cup DOMAIN updates |->
     IF k \in DOMAIN updates
     THEN (IF k = "preferences" THEN Hydrate(updates[k]) ELSE updates[k])
     ELSE doc[k]]

UsersProfileAnswer(doc) == Resp(200, "Profile updated successfully", [user |-> ToJSON(doc)])

PreferencesAnswer(doc) ==
  Resp(200, "Preferences updated successfully", [preferences |-> doc.preferences])

PassportAnswer(doc) ==
  Resp(200, "Passport information updated successfully", [passport |-> doc.passport])

\* The success response of the update handler `op` for the updated document.
UpdateAnswer(op, doc) ==
  CASE op = "preferences" -> PreferencesAnswer(doc)
    [] op = "passport" -> PassportAnswer(doc)
    [] OTHER -> UsersProfileAnswer(doc)

\* findByIdAndUpdate(req.user._id, updates, { new: true, runValidators: true })
\* and the handler's answer: a validator error is thrown (500), no document
\* is 404, else the handler's success response for the updated document, which
\* the query returns without its password field.
UpdateUser(r, updates, failure) ==
  LET id == req[r].user._id IN
  IF ~UpdateValid(updates)
  THEN Reply(r, Err(500, failure)) /\ UNCHANGED users
  ELSE IF id \notin DOMAIN users
  THEN Reply(r, Err(404, "User not found")) /\ UNCHANGED users
  ELSE /\ users' = [users EXCEPT ![id] = Updated(@, updates)]
       /\ Reply(r, UpdateAnswer(req[r].op,
                                Without(Updated(users[id], updates), {"password"})))

\* PUT /users/profile
UsersProfile(r) ==
  /\ At(r, "usersProfile", "h0")
  /\ LET body == req[r].arg
         updates == Allowed(body, {"firstName", "lastName", "phone", "dateOfBirth"}) IN
     IF "firstName" \in DOMAIN body /\ body.firstName = ""
     THEN Reply(r, ValidationErrors) /\ UNCHANGED users
     ELSE IF DOMAIN updates = {}
     THEN Reply(r, Err(400, "No valid fields provided for update")) /\ UNCHANGED users
     ELSE UpdateUser(r, updates, "Error updating profile")
  /\ UNCHANGED <<bookings, nextId, jwtSecret, cancelOk, mockRestaurants, nodeEnv>>

\* PUT /auth/profile
AuthProfile(r) ==
  /\ At(r, "authProfile", "h0")
  /\ LET updates == Allowed(req[r].arg, {"firstName", "lastName", "phone",
                                          "dateOfBirth", "preferences"}) IN
     UpdateUser(r, updates, "Error updating profile")
  /\ UNCHANGED <<bookings, nextId, jwtSecret, cancelOk, mockRestaurants, nodeEnv>>

PreferencesValid(body) ==
  /\ "currency" \in DOMAIN body => body.currency \in Currencies
  /\ "language" \in DOMAIN body => body.language \in Languages
  /\ "notifications" \in DOMAIN body => body.notifications \in BOOLEAN

\* { ...req.user.preferences, ...preferences }
Merge(base, over) ==
  [k \in DOMAIN base \cup DOMAIN over |-> IF k \in DOMAIN over THEN over[k] ELSE base[k]]

\* PUT /users/preferences
Preferences(r) ==
  /\ At(r, "preferences", "h0")
  /\ LET body == req[r].arg
         preferences == Select(body, {"currency", "language", "notifications"}) IN
     IF ~PreferencesValid(body)
     THEN Reply(r, ValidationErrors) /\ UNCHANGED users
     ELSE IF DOMAIN preferences = {}
     THEN Reply(r, Err(400, "No preferences provided for update")) /\ UNCHANGED users
     ELSE UpdateUser(r, [preferences |-> Merge(req[r].user.preferences, preferences)],
                     "Error updating preferences")
  /\ UNCHANGED <<bookings, nextId, jwtSecret, cancelOk, mockRestaurants, nodeEnv>>

PassportValid(body) ==
  /\ "number" \in DOMAIN body /\ body.number # ""
  /\ "expiryDate" \in DOMAIN body /\ IsISO8601(body.expiryDate)
  /\ "countryOfIssue" \in DOMAIN body /\ body.countryOfIssue # ""

\* PUT /users/passport, handled when the clock reads `now`.
Passport(r) ==
  /\ At(r, "passport", "h0")
  /\ \E now \in Times :
       LET body == req[r].arg
           expiry == IF Has(body, "expiryDate") THEN NewDate(body.expiryDate)
                     ELSE InvalidDate IN
       IF ~PassportValid(body)
       THEN Reply(r, ValidationErrors) /\ UNCHANGED users
       ELSE IF NotAfter(expiry, now)
       THEN Reply(r, Err(400, "Passport expiry date must be in the future"))
            /\ UNCHANGED users
       ELSE UpdateUser(r, [passport |-> [number |-> body.number,
                                         expiryDate |-> expiry,
                                         countryOfIssue |-> body.countryOfIssue]],
                       "Error updating passport information")
  /\ UNCHANGED <<bookings, nextId, jwtSecret, cancelOk, mockRestaurants, nodeEnv>>

RecentLimit == 5

\* GET /users/dashboard
Dashboard(r) ==
  /\ At(r, "dashboard", "h0")
  /\ LET mine == {b \in DOMAIN bookings : bookings[b].user = req[r].user._id}
         recent == Page(NewestFirst(mine), 0, RecentLimit) IN
     Reply(r, Resp(200, "",
           [dashboard |->
              [user |-> ToJSON(req[r].user),
               stats |-> [totalBookings |-> Cardinality(mine)],
               recentBookings |->
                 [i \in DOMAIN recent |->
                    Select(bookings[recent[i]],
                           {"_id", "type", "bookingReference", "status"})]]]))
  /\ StoreUnchanged
  /\ UNCHANGED <<cancelOk, mockRestaurants, nodeEnv>>

\* The roles GET /users is registered with: authorize('admin').
ListUsersRoles == {"admin"}

RoleAllowedAlways(role, roles) == TRUE

\* roles.includes(req.user.role)
RoleAllowed(role, roles) == role \in roles

AuthForbidden == Err(403, "Access denied. Insufficient permissions.")

\* authorize('admin'), after authenticate
Authorize(r) ==
  /\ At(r, "listUsers", "authorize")
  /\ IF req[r].user = NoDoc THEN Reply(r, Err(401, "Access denied. Please log in."))
     ELSE IF ~RoleAllowed(req[r].user.role, ListUsersRoles)
     THEN Reply(r, AuthForbidden)
     ELSE Goto(r, "h0")
  /\ StoreUnchanged
  /\ UNCHANGED <<cancelOk, mockRestaurants, nodeEnv>>

\* parseInt(req.query[k]) || d
ParseIntOr(a, k, d) == IF ~Has(a, k) \/ a[k] = 0 THEN d ELSE a[k]

\* GET /users: User.find().select('-password'), newest first, one page.
\* A negative skip is refused by the store.
ListUsers(r) ==
  /\ At(r, "listUsers", "h0")
  /\ LET page == ParseIntOr(req[r].arg, "page", DefaultPage)
         limit == ParseIntOr(req[r].arg, "limit", DefaultLimit)
         skip == (page - 1) * limit
         found == Page(NewestFirst(DOMAIN users), skip, limit) IN
     IF skip < 0 THEN Reply(r, Err(500, "Error fetching users"))
     ELSE Reply(r, Resp(200, "",
                [users |-> [i \in DOMAIN found |-> ToJSON(Without(users[found[i]], {"password"}))],
                 pagination |-> [page |-> page, limit |-> limit,
                                 total |-> Cardinality(DOMAIN users),
                                 totalPages |-> CeilDiv(Cardinality(DOMAIN users), limit)]]))
  /\ StoreUnchanged
  /\ UNCHANGED <<cancelOk, mockRestaurants, nodeEnv>>

\* POST /auth/logout
Logout(r) ==
  /\ At(r, "logout", "h0")
  /\ Reply(r, Resp(200, "Logout successful", NoData))
  /\ StoreUnchanged
  /\ UNCHANGED <<cancelOk, mockRestaurants, nodeEnv>>

----------------------------------------------------------------------------
(* routes/restaurants: GET /restaurants/search, GET /restaurants/nearby *)

\* Array.prototype.slice(start, end): a negative index counts from the end.
SliceIndex(n, i) == IF i < 0 THEN (IF n + i < 0 THEN 0 ELSE n + i)
                    ELSE (IF i > n THEN n ELSE i)
Slice(seq, start, end) ==
  LET from == SliceIndex(Len(seq), start)
      to == SliceIndex(Len(seq), end) IN
  IF to <= from THEN <<>> ELSE SubSeq(seq, from + 1, to)

\* Array.prototype.filter with the test written as the set of indices kept.
RECURSIVE FilterSeq(_, _)
FilterSeq(seq, keep) ==
  IF seq = <<>> THEN <<>>
  ELSE LET rest == FilterSeq(Tail(seq), {i - 1 : i \in keep \ {1}}) IN
       IF 1 \in keep THEN <<Head(seq)>> \o rest ELSE rest

\* String.prototype.split(','): the parts between the commas.
RECURSIVE Split(_)
Split(t) ==
  IF \A i \in DOMAIN t : t[i] # "," THEN <<t>>
  ELSE LET k == CHOOSE i \in DOMAIN t : t[i] = "," /\ \A j \in 1..(i - 1) : t[j] # "," IN
       <<SubSeq(t, 1, k - 1)>> \o Split(SubSeq(t, k + 1, Len(t)))

PriceRanges == {"$", "$$", "$$$", "$$$$"}
MinRating == 10
MaxRating == 50

\* The validators of GET /restaurants/search.
SearchValid(a) ==
  /\ Has(a, "location") /\ a.location # <<>>
  /\ Has(a, "priceRange") => a.priceRange \in PriceRanges
  /\ Has(a, "rating") => (a.rating >= MinRating /\ a.rating <= MaxRating)

\* if (cuisine) ...: a supplied, non-empty text
Given(a, k) == Has(a, k) /\ a[k] # <<>>

MatchesCuisine(restaurant, a) ==
  Given(a, "cuisine") =>
    \E i \in DOMAIN restaurant.cuisine :
      Includes(ToLowerCase(restaurant.cuisine[i]), ToLowerCase(a.cuisine))

MatchesPriceRange(restaurant, a) ==
  Has(a, "priceRange") => restaurant.priceRange = a.priceRange

MatchesRating(restaurant, a) ==
  Has(a, "rating") => restaurant.rating >= a.rating

MatchesLocationCityOnly(restaurant, a) ==
  Includes(ToLowerCase(restaurant.location.city), ToLowerCase(a.location))

MatchesLocation(restaurant, a) ==
  \/ Includes(ToLowerCase(restaurant.location.city), ToLowerCase(a.location))
  \/ Includes(ToLowerCase(restaurant.location.country), ToLowerCase(a.location))

MatchesFeatures(restaurant, a) ==
  Given(a, "features") =>
    LET requestedFeatures == Split(a.features) IN
    \E f \in DOMAIN requestedFeatures, i \in DOMAIN restaurant.features :
      Includes(ToLowerCase(restaurant.features[i]), ToLowerCase(requestedFeatures[f]))

\* The test of the filter of GET /restaurants/search.
MatchesSearch(restaurant, a) ==
  /\ MatchesLocation(restaurant, a)
  /\ MatchesCuisine(restaurant, a)
  /\ MatchesPriceRange(restaurant, a)
  /\ MatchesRating(restaurant, a)
  /\ MatchesFeatures(restaurant, a)

\* restaurants.sort((a, b) => b.rating - a.rating): stable, best rating first.
RECURSIVE InsertByRating(_, _)
InsertByRating(x, sorted) ==
  IF sorted = <<>> THEN <<x>>
  ELSE IF Head(sorted).rating < x.rating THEN <<x>> \o sorted
  ELSE <<Head(sorted)>> \o InsertByRating(x, Tail(sorted))

SortByRatingKeepsOrder(seq) == seq

RECURSIVE SortByRating(_)
SortByRating(seq) ==
  IF seq = <<>> THEN <<>>
  ELSE InsertByRating(seq[Len(seq)], SortByRating(SubSeq(seq, 1, Len(seq) - 1)))

\* The pagination block of a response over the ordered result.
Pagination(page, limit, total) ==
  [page |-> page, limit |-> limit, total |-> total, totalPages |-> CeilDiv(total, limit)]

\* The answer of GET /restaurants/search to an accepted query a over the
\* reference list: filter (a new array), sort of that array in place, one page.
SearchPage(list, a) ==
  LET restaurants ==
        SortByRating(FilterSeq(list, {i \in DOMAIN list : MatchesSearch(list[i], a)}))
      page == ParseIntOr(a, "page", DefaultPage)
      limit == ParseIntOr(a, "limit", DefaultLimit)
      startIndex == (page - 1) * limit
      endIndex == page * limit IN
  [restaurants |-> Slice(restaurants, startIndex, endIndex),
   searchParams |-> Select(a, {"location", "cuisine", "priceRange", "rating"}),
   pagination |-> Pagination(page, limit, Len(restaurants))]

\* GET /restaurants/search behind optionalAuth: the check of the query, then
\* the answer; the reference list is only read.
Search(r) ==
  /\ At(r, "search", "h0")
  /\ IF ~SearchValid(req[r].arg) THEN Reply(r, ValidationErrors)
     ELSE Reply(r, Resp(200, "", SearchPage(mockRestaurants, req[r].arg)))
  /\ StoreUnchanged
  /\ UNCHANGED <<cancelOk, mockRestaurants, nodeEnv>>

\* Lengths are in units of 10 m: the radius validator isFloat({ min: 0.1,
\* max: 50 }) and the default radius = 5, in km.
MinRadius == 10
MaxRadius == 5000
DefaultRadius == 500

\* Query points: the three restaurants' own coordinates and four points north
\* and south-west of REST001 (40.76,-73.98; 40.7128,-74.006; 40.9,-73.9855;
\* 41.3,-73.9855).
Points == {"NewYork", "LosAngeles", "Chicago",
           "NearNewYork", "CityHall", "Yonkers", "Bedford"}

\* calculateDistance (haversine, R = 6371 km) evaluated from each point above
\* to the coordinates of REST001, REST002 and REST003, rounded to 10 m.
CalculateDistance(point, site) ==
  LET row == CASE point = "NewYork" -> <<0, 393715, 114504>>
             [] point = "LosAngeles" -> <<393715, 0, 280397>>
             [] point = "Chicago" -> <<114504, 280397, 0>>
             [] point = "NearNewYork" -> <<51, 393760, 114546>>
             [] point = "CityHall" -> <<531, 393575, 114429>>
             [] point = "Yonkers" -> <<1579, 393618, 114221>>
             [] point = "Bedford" -> <<6027, 393373, 113535>>
  IN CASE site = "NewYork" -> row[1] [] site = "LosAngeles" -> row[2]
       [] site = "Chicago" -> row[3]

\* The validators of GET /restaurants/nearby: lat and lng are floats (the
\* query names a point), the radius is optional and within its limits.
NearbyValid(a) ==
  /\ Has(a, "point")
  /\ Has(a, "radius") => (a.radius >= MinRadius /\ a.radius <= MaxRadius)

\* .map(restaurant => ({ ...restaurant, distance: calculateDistance(..) }))
WithDistance(restaurant, point) ==
  [k \in DOMAIN restaurant \cup {"distance"} |->
     IF k = "distance" THEN CalculateDistance(point, restaurant.location.coordinates)
     ELSE restaurant[k]]

WithinRadiusAlways(restaurant, searchRadius) == TRUE

\* .filter(restaurant => restaurant.distance <= searchRadius)
WithinRadius(restaurant, searchRadius) == restaurant.distance <= searchRadius

\* The test of the second filter of GET /restaurants/nearby.
MatchesNearby(restaurant, a) ==
  /\ MatchesCuisine(restaurant, a)
  /\ MatchesPriceRange(restaurant, a)
  /\ MatchesRating(restaurant, a)

\* .sort((a, b) => a.distance - b.distance): stable, nearest first.
RECURSIVE InsertByDistance(_, _)
InsertByDistance(x, sorted) ==
  IF sorted = <<>> THEN <<x>>
  ELSE IF x.distance < Head(sorted).distance THEN <<x>> \o sorted
  ELSE <<Head(sorted)>> \o InsertByDistance(x, Tail(sorted))

RECURSIVE SortByDistance(_)
SortByDistance(seq) ==
  IF seq = <<>> THEN <<>>
  ELSE InsertByDistance(seq[Len(seq)], SortByDistance(SubSeq(seq, 1, Len(seq) - 1)))

\* The restaurants GET /restaurants/nearby finds in `list` for query a:
\* map, the two filters, sort.
NearbyRestaurants(list, a) ==
  LET searchRadius == IF Has(a, "radius") THEN a.radius ELSE DefaultRadius
      mapped == [i \in DOMAIN list |-> WithDistance(list[i], a.point)] IN
  SortByDistance(FilterSeq(mapped, {i \in DOMAIN mapped :
                                      /\ WithinRadius(mapped[i], searchRadius)
                                      /\ MatchesNearby(mapped[i], a)}))

\* GET /restaurants/nearby
Nearby(r) ==
  /\ At(r, "nearby", "h0")
  /\ LET a == req[r].arg
         nearbyRestaurants == NearbyRestaurants(mockRestaurants, a)
         page == ParseIntOr(a, "page", DefaultPage)
         limit == ParseIntOr(a, "limit", DefaultLimit)
         startIndex == (page - 1) * limit
         endIndex == page * limit IN
     IF ~NearbyValid(a) THEN Reply(r, ValidationErrors)
     ELSE Reply(r, Resp(200, "",
                [restaurants |-> Slice(nearbyRestaurants, startIndex, endIndex),
                 searchParams |-> [point |-> a.point,
                                   radius |-> IF Has(a, "radius") THEN a.radius
                                              ELSE DefaultRadius],
                 pagination |-> Pagination(page, limit, Len(nearbyRestaurants))]))
  /\ StoreUnchanged
  /\ UNCHANGED <<cancelOk, mockRestaurants, nodeEnv>>

\* A request for a route without an authentication middleware arrives.
Arrive(r, op, arg) ==
  /\ Free(r)
  /\ req' = [req EXCEPT ![r] = [Idle EXCEPT !.op = op, !.arg = arg, !.pc = "h0"]]
  /\ StoreUnchanged
  /\ UNCHANGED <<cancelOk, mockRestaurants, nodeEnv>>

----------------------------------------------------------------------------
(* Requests of authenticated clients; U: the accounts whose tokens are used *)

BookingQueries ==
  {EmptyBody, [page |-> 0], [page |-> 2, limit |-> 1], [limit |-> MaxLimit + 1],
   [status |-> "completed"], [type |-> "flight", status |-> "paid"]}

UserQueries == {EmptyBody, [page |-> 2, limit |-> 1], [page |-> -1], [page |-> 0, limit |-> 0]}

StartBookingRead(r, U) ==
  \E u \in U :
    \/ \E query \in BookingQueries :
         Authenticate(r, "getBookings", Bearer(Token(u)), NoToken, query, {FALSE})
    \/ \E id \in 0..MaxBookings :
         Authenticate(r, "getBooking", Bearer(Token(u)), NoToken, [id |-> id], {FALSE})
    \/ \E ref \in {ToLowerCase(BookingRef(1)), BookingRef(2),
                    GenerateReference("hotel", 0, <<>>)} :
         Authenticate(r, "getByReference", Bearer(Token(u)), NoToken,
                      [reference |-> ref], {FALSE})

StartAccountRead(r, U) ==
  \E u \in U :
    \/ \E op \in {"me", "logout", "dashboard"} :
         Authenticate(r, op, Bearer(Token(u)), NoToken, NoArg, {FALSE})
    \/ \E query \in UserQueries :
         Authenticate(r, "listUsers", Bearer(Token(u)), NoToken, query, {FALSE})

ProfileBodies ==
  {[firstName |-> "Zed"], [firstName |-> ""], [role |-> "admin"],
   [firstName |-> "Zed", role |-> "admin", email |-> EmailB, password |-> Hash(PwB)],
   [preferences |-> [currency |-> "EUR"]], [preferences |-> [currency |-> "XXX"]],
   [passport |-> [number |-> "P0", expiryDate |-> 1, countryOfIssue |-> "FR"]],
   EmptyBody}

PreferencesBodies ==
  {[currency |-> "EUR"], [notifications |-> FALSE], [currency |-> "XXX"],
   [language |-> "fr", role |-> "admin"], EmptyBody}

PassportBodies ==
  {[number |-> "P1", expiryDate |-> d, countryOfIssue |-> "FR"] :
     d \in {BadDate, WeekDate(1), WeekDate(MaxTime + 1)} \cup 1..(MaxTime + 1)}
  \cup {[expiryDate |-> MaxTime + 1, countryOfIssue |-> "FR"]}

StartAccountUpdate(r, U) ==
  \E u \in U :
    \/ \E op \in {"usersProfile", "authProfile"}, body \in ProfileBodies :
         Authenticate(r, op, Bearer(Token(u)), NoToken, body, {FALSE})
    \/ \E body \in PreferencesBodies :
         Authenticate(r, "preferences", Bearer(Token(u)), NoToken, body, {FALSE})
    \/ \E body \in PassportBodies :
         Authenticate(r, "passport", Bearer(Token(u)), NoToken, body, {FALSE})

----------------------------------------------------------------------------
(* The store API: accounts and their bookings *)

\* Stored bookings of the accounts; booking 1 belongs to account 1.
InitBookings ==
  {[b \in BookingIds |-> NewBooking(b, own[b], st[b])] :
     own \in {o \in [BookingIds -> DOMAIN InitUsers] : o[1] = 1},
     st \in [BookingIds -> Statuses]}

Init ==
  /\ users = InitUsers
  /\ bookings \in InitBookings
  /\ nextId = 3
  /\ jwtSecret = TRUE
  /\ req = [r \in Reqs |-> Idle]
  /\ cancelOk = [b \in BookingIds |-> 0]
  /\ mockRestaurants = MockRestaurants
  /\ nodeEnv = "production"

Next ==
  \E r \in Reqs :
    \/ StartCancel(r)
    \/ StartDeleteAccount(r)
    \/ CancelFind(r)
    \/ CancelSave(r)
    \/ DeleteAccountVerify(r)
    \/ DeleteAccountCount(r)
    \/ DeleteAccountBookings(r)
    \/ DeleteAccountUser(r)

Spec == Init /\ [][Next]_vars

----------------------------------------------------------------------------
(* Properties of the store API *)

\* Slot r takes a step of its request.
Steps(r) == req'[r] # req[r]

OwnedBy(b, uid) == b \in DOMAIN bookings /\ bookings[b].user = uid

\* C1: a DELETE /bookings/:id by the owner that finds the booking cancelled
\* or completed is answered 400, and the stored bookings are left as they were.
C1_TerminalCancelRejected ==
  [][\A r \in Reqs :
       (/\ At(r, "cancel", "h0") /\ Steps(r)
        /\ OwnedBy(req[r].arg.id, req[r].user._id)
        /\ bookings[req[r].arg.id].status \in Terminal)
       => /\ req'[r].pc = "done"
          /\ req'[r].resp.status = 400
          /\ req'[r].resp.message # ValidationErrors.message
          /\ bookings' = bookings]_vars

C1_Witness ==
  \E r \in Reqs :
    /\ At(r, "cancel", "done")
    /\ req[r].resp.status = 400
    /\ OwnedBy(req[r].arg.id, req[r].user._id)
    /\ bookings[req[r].arg.id].status = "completed"

\* C2: for any one booking at most one cancel request is ever answered with
\* success, whatever the interleaving of the requests' reads and saves.
C2_AtMostOneCancelSucceeds == \A b \in BookingIds : cancelOk[b] <= 1

\* C3: once a stored booking is cancelled or completed, no step of the API
\* gives it another status.
C3_TerminalAbsorbing ==
  [][\A b \in DOMAIN bookings :
       (bookings[b].status \in Terminal /\ b \in DOMAIN bookings')
       => bookings'[b].status = bookings[b].status]_vars

\* A save has acted on a booking that was already cancelled.
C3_Witness ==
  \E b \in DOMAIN bookings : bookings[b].status = "cancelled" /\ cancelOk[b] >= 2

IsDelete(r) == req[r].op = "deleteAccount"
Refused(q) == q.pc = "done" /\ q.resp.status # 200

\* C4: DELETE /users/account of a stored account: a non-matching password is
\* answered 401 and a pending or confirmed booking of the account 400, the
\* store being left as it was; otherwise the request goes on to remove the
\* account, and it is answered 200 only with the matching password, the
\* account removed and none of its bookings left.
C4_DeleteAccountGuard ==
  [][\A r \in Reqs :
       LET uid == req[r].user._id
           pw == req[r].arg.password IN
       /\ (At(r, "deleteAccount", "h0") /\ Steps(r) /\ pw # PwEmpty /\ uid \in DOMAIN users)
          => IF ComparePassword(pw, users[uid].password)
             THEN req'[r].pc = "count"
             ELSE /\ Refused(req'[r]) /\ req'[r].resp.status = 401
                  /\ users' = users /\ bookings' = bookings
       /\ (At(r, "deleteAccount", "count") /\ Steps(r))
          => IF \E b \in DOMAIN bookings : OwnedBy(b, uid) /\ bookings[b].status \in Active
             THEN /\ Refused(req'[r]) /\ req'[r].resp.status = 400
                  /\ users' = users /\ bookings' = bookings
             ELSE req'[r].pc = "deleteMany"
       /\ (IsDelete(r) /\ req[r].pc \in {"deleteMany", "deleteUser"} /\ Steps(r))
          => ~Refused(req'[r])
       /\ (IsDelete(r) /\ Steps(r) /\ req'[r].pc = "done" /\ req'[r].resp.status = 200)
          => /\ ComparePassword(pw, InitUsers[uid].password)
             /\ uid \notin DOMAIN users'
             /\ \A b \in DOMAIN bookings' : bookings'[b].user # uid]_vars

C4_Witness ==
  \E r \in Reqs :
    /\ At(r, "deleteAccount", "done")
    /\ req[r].resp.status = 200
    /\ req[r].user._id \notin DOMAIN users
    /\ \E q \in Reqs : At(q, "deleteAccount", "done") /\ req[q].resp.status = 400

----------------------------------------------------------------------------
(* Registration and login, with or without a configured signing secret *)

InitReg ==
  /\ users = [u \in {1} |-> InitUsers[u]]
  /\ bookings = [b \in {} |-> NoDoc]
  /\ nextId = 2
  /\ jwtSecret \in BOOLEAN
  /\ req = [r \in Reqs |-> Idle]
  /\ cancelOk = [b \in BookingIds |-> 0]
  /\ mockRestaurants = MockRestaurants
  /\ nodeEnv = "production"

NextReg ==
  \E r \in Reqs :
    \/ RegisterLookup(r)
    \/ RegisterSave(r)
    \/ Login(r)

SpecReg == InitReg /\ [][NextReg]_vars

\* C5: the store never holds two accounts with the same email address.
C5_UniqueEmail ==
  \A u, v \in DOMAIN users : users[u].email = users[v].email => u = v

\* Two registrations of one address raced: one created the account, the
\* other was stopped by the index at its save.
C5_Witness ==
  \E r, q \in Reqs :
    /\ r # q /\ jwtSecret
    /\ At(r, "register", "done") /\ req[r].resp.status = 201
    /\ At(q, "register", "done") /\ req[q].resp = RegisterFailed
    /\ req[q].arg.email = req[r].arg.email

\* C6: a register request that finds its address already registered when it
\* saves the account is answered with the Conflict response.
C6_DuplicateIsConflict ==
  [][\A r \in Reqs :
       (At(r, "register", "save") /\ Steps(r) /\ FindByEmail(req[r].arg.email) # {})
       => req'[r].resp = RegisterConflict]_vars

LoginDone(r) == At(r, "login", "done") /\ req[r].resp # ValidationErrors

\* C8: a login for an address that is not registered and a login with a
\* password that does not match get the same status, 401, and the same body.
C8_LoginIndistinguishable ==
  \A r, q \in Reqs :
    (/\ LoginDone(r) /\ req[r].loc = NoDoc
     /\ LoginDone(q) /\ req[q].loc # NoDoc
     /\ ~ComparePassword(req[q].arg.password, req[q].loc.password))
    => req[r].resp = req[q].resp /\ req[r].resp.status = 401

C8_Witness ==
  \E r, q \in Reqs :
    /\ LoginDone(r) /\ FindByEmail(req[r].arg.email) = {}
    /\ LoginDone(q) /\ FindByEmail(req[q].arg.email) # {}
    /\ req[q].resp.status = 401

----------------------------------------------------------------------------
(* The two authentication middlewares under every kind of credential *)

InitAuth ==
  /\ users = InitUsers
  /\ bookings = [b \in {} |-> NoDoc]
  /\ nextId = 3
  /\ jwtSecret \in BOOLEAN
  /\ req = [r \in Reqs |-> Idle]
  /\ cancelOk = [b \in BookingIds |-> 0]
  /\ mockRestaurants = MockRestaurants
  /\ nodeEnv = "production"

NextAuth ==
  \E r \in Reqs :
    \/ StartMeAny(r)
    \/ Me(r)
    \/ StartSearchAny(r)
    \/ Search(r)

SpecAuth == InitAuth /\ [][NextAuth]_vars

\* A request arrives in slot r in this step.
Arrives(r) == Free(r) /\ Steps(r)

\* The token a request presents: the Bearer header's, else the token cookie.
Presented(q) ==
  IF q.hdr.scheme = "Bearer" /\ q.hdr.tok # NoToken THEN q.hdr.tok ELSE q.cookie

\* The token is correctly signed and not expired, and its account is stored.
Acceptable(tok) ==
  /\ tok # NoToken /\ tok.sig = "ok" /\ ~tok.expired /\ jwtSecret
  /\ tok.uid \in DOMAIN users

\* C9: behind authenticate the handler is invoked only for a request whose
\* token verifies and whose account is stored at the lookup; a request with no
\* token, a token that does not verify or a token of no stored account is
\* answered 401 and the handler is not invoked.
C9_AuthenticateFailsClosed ==
  [][\A r \in Reqs :
       (Arrives(r) /\ req'[r].op \in ProtectedOps)
       => LET q == req'[r] IN
          /\ (q.nextCalls > 0 \/ q.pc # "done" \/ q.user # NoDoc)
             => (Acceptable(Presented(q)) /\ q.user._id = Presented(q).uid)
          /\ ~Acceptable(Presented(q))
             => (q.pc = "done" /\ q.resp.status = 401 /\ q.nextCalls = 0)]_vars

\* A correctly signed, unexpired token of an account that is not stored was
\* refused, and a cookie token was accepted.
C9_Witness ==
  \E r, q \in Reqs :
    /\ At(r, "me", "done") /\ req[r].resp = AuthNoUser
    /\ req[q].op = "me" /\ req[q].nextCalls = 1
    /\ HeaderToken(req[q].hdr) = NoToken

\* C10: optionalAuth answers no request itself and passes every request on
\* exactly once; it attaches an account only if the header's token verifies
\* and that account is stored.
C10_OptionalNeverBlocks ==
  [][\A r \in Reqs :
       (Arrives(r) /\ req'[r].op = "search")
       => LET q == req'[r]
              tok == IF q.hdr.scheme = "Bearer" THEN q.hdr.tok ELSE NoToken IN
          /\ q.nextCalls = 1 /\ q.pc = "h0" /\ q.resp = NoResp
          /\ q.user # NoDoc => (Acceptable(tok) /\ q.user._id = tok.uid)]_vars

\* Requests with an expired token and with a token of no stored account were
\* passed on without an account, and one with a good token with its account.
C10_Witness ==
  \E r, q \in Reqs :
    /\ req[r].op = "search" /\ req[r].nextCalls = 1 /\ req[r].user = NoDoc
    /\ req[r].hdr.tok.sig = "ok" /\ req[r].hdr.tok.expired
    /\ req[q].op = "search" /\ req[q].nextCalls = 1 /\ req[q].user # NoDoc

----------------------------------------------------------------------------
(* Every endpoint that answers with account data, one request at a time *)

InitAll ==
  /\ users = InitUsers
  /\ bookings = [b \in BookingIds |->
                   NewBooking(b, IF b = 1 THEN 1 ELSE 2,
                              IF b = 1 THEN "confirmed" ELSE "completed")]
  /\ nextId = 3
  /\ jwtSecret = TRUE
  /\ req = [r \in Reqs |-> Idle]
  /\ cancelOk = [b \in BookingIds |-> 0]
  /\ mockRestaurants = MockRestaurants
  /\ nodeEnv = "production"

NextAll ==
  \E r \in {1} :
    \/ RegisterLookup(r)
    \/ RegisterSave(r)
    \/ Login(r)
    \/ StartBookingRead(r, DOMAIN InitUsers)
    \/ GetBookings(r)
    \/ GetBooking(r)
    \/ GetByReference(r)
    \/ StartAccountRead(r, DOMAIN InitUsers)
    \/ Me(r)
    \/ Logout(r)
    \/ Dashboard(r)
    \/ Authorize(r)
    \/ ListUsers(r)
    \/ StartAccountUpdate(r, {1})
    \/ UsersProfile(r)
    \/ AuthProfile(r)
    \/ Preferences(r)
    \/ Passport(r)

SpecAll == InitAll /\ [][NextAll]_vars

HasPassword(doc) == "password" \in DOMAIN doc

\* The account documents a response body carries.
AccountsIn(q) ==
  LET d == q.resp.data IN
  (IF "user" \in DOMAIN d THEN {d.user} ELSE {})
  \cup (IF "users" \in DOMAIN d THEN {d.users[i] : i \in DOMAIN d.users} ELSE {})
  \cup (IF "dashboard" \in DOMAIN d THEN {d.dashboard.user} ELSE {})
  \cup (IF "booking" \in DOMAIN d /\ q.op \in {"getBooking", "getByReference"}
        THEN {d.booking.user} ELSE {})
  \cup (IF "bookings" \in DOMAIN d THEN {d.bookings[i].user : i \in DOMAIN d.bookings} ELSE {})

\* C7: no response carries an account's password field, nor does the account
\* the authenticator attaches to a request.
C7_NoPasswordLeaves ==
  \A r \in Reqs :
    /\ ~HasPassword(req[r].user)
    /\ \A doc \in AccountsIn(req[r]) : ~HasPassword(doc)
    /\ ~HasPassword(req[r].resp.data)

\* A login read the stored hash and answered with the account.
C7_Witness ==
  \E r \in Reqs :
    /\ At(r, "login", "done") /\ req[r].resp.status = 200
    /\ HasPassword(req[r].loc)
    /\ req[r].resp.data.user._id = req[r].loc._id

----------------------------------------------------------------------------
(* The role gate of GET /users *)

\* The handler of GET /users has run or is about to run for request r.
ListUsersHandled(r) ==
  /\ req[r].op = "listUsers"
  /\ \/ req[r].pc = "h0"
     \/ req[r].pc = "done" /\ req[r].resp.status \in {200, 500}

\* C11: the handler behind authorize('admin') runs only for a request whose
\* authenticated account has the role admin, resolved and stored; a request
\* authenticated as an account of another role is answered 403 and is never
\* handed to the handler.
C11_RoleGate ==
  \A r \in Reqs :
    /\ ListUsersHandled(r) =>
         /\ req[r].user # NoDoc
         /\ req[r].user.role = "admin"
         /\ req[r].user._id \in DOMAIN users => users[req[r].user._id].role = "admin"
    /\ (req[r].op = "listUsers" /\ req[r].user # NoDoc /\ req[r].user.role # "admin") =>
         /\ req[r].pc \in {"authorize", "done"}
         /\ req[r].pc = "done" => req[r].resp = AuthForbidden

\* An account of role user asked for the listing and was refused.
C11_Witness ==
  \E r \in Reqs :
    /\ At(r, "listUsers", "done")
    /\ req[r].user # NoDoc /\ req[r].user.role = "user"
    /\ req[r].resp.status = 403

----------------------------------------------------------------------------
(* Booking reads and cancellations of two accounts, interleaved *)

NextBook ==
  \E r \in Reqs :
    \/ StartBookingRead(r, DOMAIN InitUsers)
    \/ GetBookings(r)
    \/ GetBooking(r)
    \/ GetByReference(r)
    \/ StartCancel(r)
    \/ CancelFind(r)
    \/ CancelSave(r)

\* Booking 1 belongs to account 1, every other booking to account 2.
InitBook ==
  /\ users = InitUsers
  /\ \E st \in {"pending", "completed"} :
       bookings = [b \in BookingIds |->
                     IF b = 1 THEN NewBooking(b, 1, "confirmed") ELSE NewBooking(b, 2, st)]
  /\ nextId = 3
  /\ jwtSecret = TRUE
  /\ req = [r \in Reqs |-> Idle]
  /\ cancelOk = [b \in BookingIds |-> 0]
  /\ mockRestaurants = MockRestaurants
  /\ nodeEnv = "production"

SpecBook == InitBook /\ [][NextBook]_vars

\* The owner of a booking b in the response of request q: the reads populate
\* the owner, the cancellation answers with the document as loaded.
OwnerIn(q, b) == IF q.op = "cancel" THEN b.user ELSE b.user._id

\* The bookings in the response of request q.
BookingsIn(q) ==
  LET d == q.resp.data IN
  (IF "booking" \in DOMAIN d THEN {d.booking} ELSE {})
  \cup (IF "bookings" \in DOMAIN d THEN {d.bookings[i] : i \in DOMAIN d.bookings} ELSE {})

\* The stored bookings request q addresses by _id or by reference.
Addressed(q) ==
  CASE q.op \in {"getBooking", "cancel"} -> {b \in DOMAIN bookings : b = q.arg.id}
    [] q.op = "getByReference" ->
         {b \in DOMAIN bookings : bookings[b].bookingReference = ToUpperCase(q.arg.reference)}
    [] OTHER -> {}

\* C12: the booking endpoints return and modify only bookings owned by the
\* authenticated account: every booking in a response is the caller's, a
\* stored booking changes only in a step of a cancel request of its owner,
\* and a handler that is asked for a booking of another account answers 404.
C12_OwnerOnly ==
  [][\A r \in Reqs :
       /\ (Steps(r) /\ req'[r].pc = "done") =>
            \A b \in BookingsIn(req'[r]) : OwnerIn(req'[r], b) = req'[r].user._id
       /\ (Steps(r) /\ req[r].pc = "h0" /\ req'[r].pc # "h0"
           /\ \E b \in Addressed(req[r]) : bookings[b].user # req[r].user._id) =>
            /\ req'[r].pc = "done"
            /\ req'[r].resp.status = 404
       /\ \A b \in DOMAIN bookings :
            (Steps(r) /\ (b \notin DOMAIN bookings' \/ bookings'[b] # bookings[b])) =>
              /\ req[r].op = "cancel"
              /\ bookings[b].user = req[r].user._id]_vars

\* A cancellation and a read by _id of a booking of another account were
\* both answered 404.
C12_Witness ==
  \E r, q \in Reqs :
    /\ At(r, "cancel", "done") /\ At(q, "getBooking", "done")
    /\ req[r].resp.status = 404 /\ req[q].resp.status = 404
    /\ \E b \in Addressed(req[r]) : bookings[b].user # req[r].user._id /\ bookings[b].status \in Active
    /\ \E b \in Addressed(req[q]) : bookings[b].user # req[q].user._id

----------------------------------------------------------------------------
(* The paginated listings: restaurant search, proximity search, the caller's *)
(* bookings, the accounts; one request at a time                          *)

\* The ways to supply key k or to leave it out.
Opt(k, values) == {EmptyBody} \cup {[x \in {k} |-> v] : v \in values}

PageQueries ==
  {Merge(p, l) : p \in Opt("page", {2, -1}), l \in Opt("limit", {1, 2, -1})}

\* Searches that vary the criteria under the default paging, a few with
\* an empty criterion or an empty requested feature, and searches that vary
\* the paging.
SearchQueries ==
  {Merge(Merge(Merge(Merge(lo, cu), pr), ra), fe) :
     lo \in Opt("location", {<<>>, <<"U", "S", "A">>, <<"Y", "o", "r", "k">>, <<"P", "a", "r", "i", "s">>}),
     cu \in Opt("cuisine", {<<"S", "U", "S", "H", "I">>, <<"a", "n">>}),
     pr \in Opt("priceRange", {"$$", "cheap"}),
     ra \in Opt("rating", {MinRating - 1, 45}),
     fe \in Opt("features", {<<"w", "i", "n", "e">>, <<"z", "z", "z", ",", "T", "a", "k", "e", "o", "u", "t">>})}
  \cup {[location |-> <<"O">>, cuisine |-> <<>>],
        [location |-> <<"O">>, features |-> <<"z", "z", "z", ",">>],
        [location |-> <<"O">>, features |-> <<>>, priceRange |-> "$$$"],
        [location |-> <<" ">>, rating |-> MaxRating + 1]}
  \cup {Merge(lo, pg) : lo \in {[location |-> <<"u", "s", "a">>], [location |-> <<"o">>, rating |-> 45]},
                        pg \in PageQueries}

NearbyQueries ==
  {Merge(Merge(Merge(Merge(po, rd), cu), pr), ra) :
     po \in Opt("point", Points),
     rd \in Opt("radius", {MinRadius - 1, MinRadius, 51, 1579, MaxRadius, MaxRadius + 1}),
     cu \in Opt("cuisine", {<<"I", "T", "A", "L">>}),
     pr \in Opt("priceRange", {"$"}),
     ra \in Opt("rating", {0, 45, 46})}
  \cup {Merge(po, pg) : po \in {[point |-> "NewYork"], [point |-> "Bedford"]},
                        pg \in PageQueries}

StartSearch(r) ==
  \/ \E query \in SearchQueries :
       OptionalAuth(r, "search", NoHeader, NoToken, query, {FALSE})
  \/ OptionalAuth(r, "search", Bearer(Token(1)), NoToken, [location |-> <<"u", "s", "a">>], {FALSE})

StartNearby(r) == \E query \in NearbyQueries : Arrive(r, "nearby", query)

InitRest ==
  /\ users = InitUsers
  /\ bookings = [b \in BookingIds |-> NewBooking(b, 1, "pending")]
  /\ nextId = 3
  /\ jwtSecret = TRUE
  /\ req = [r \in Reqs |-> Idle]
  /\ cancelOk = [b \in BookingIds |-> 0]
  /\ mockRestaurants = MockRestaurants
  /\ nodeEnv = "production"

StartGetBookings(r) ==
  \E query \in BookingQueries \cup {[page |-> MaxBookings + 1, limit |-> 1]} :
    Authenticate(r, "getBookings", Bearer(Token(1)), NoToken, query, {FALSE})

StartListUsers(r) ==
  \E u \in DOMAIN InitUsers, query \in UserQueries :
    Authenticate(r, "listUsers", Bearer(Token(u)), NoToken, query, {FALSE})

NextRest ==
  \E r \in {1} :
    \/ StartSearch(r)
    \/ Search(r)
    \/ StartNearby(r)
    \/ Nearby(r)
    \/ StartGetBookings(r)
    \/ GetBookings(r)
    \/ StartListUsers(r)
    \/ Authorize(r)
    \/ ListUsers(r)

SpecRest == InitRest /\ [][NextRest]_vars

\* Request r was answered by the handler of `op` with a success.
Served(r, op) == At(r, op, "done") /\ req[r].resp.status = 200

\* The positions in the reference list of the items a proximity search with
\* query a must find.
NearbyExpected(a) ==
  LET R == IF Has(a, "radius") THEN a.radius ELSE DefaultRadius IN
  {i \in DOMAIN MockRestaurants :
     /\ CalculateDistance(a.point, MockRestaurants[i].location.coordinates) <= R
     /\ MatchesNearby(MockRestaurants[i], a)}

DefaultPaging(a) == ~Has(a, "page") /\ ~Has(a, "limit")

\* Lists of up to three items that carry a distance of 0, 1 or 2 and a name.
DistanceLists ==
  UNION {[1..n -> [distance : 0..2, id : {"x", "y"}]] : n \in 0..3}

NonDecreasingDistance(seq) ==
  \A i, j \in DOMAIN seq : i < j => seq[i].distance <= seq[j].distance

SameItems(s, t) ==
  /\ Len(s) = Len(t)
  /\ \A x \in {s[i] : i \in DOMAIN s} :
       Cardinality({i \in DOMAIN s : s[i] = x}) = Cardinality({i \in DOMAIN t : t[i] = x})

\* C13: a proximity search that is accepted finds exactly the reference items
\* within the radius that pass the cuisine, price and rating filters (their
\* number is the reported total, and under the default paging they are the
\* returned list), each with its computed distance, nearest first; an item
\* at distance 0 that passes the filters is found whatever the radius.  The
\* ordering step sorts every list of items by distance without losing one.
C13_NearbyWithinRadius ==
  /\ \A r \in Reqs :
       Served(r, "nearby") =>
         LET a == req[r].arg
             found == req[r].resp.data.restaurants
             E == NearbyExpected(a) IN
         /\ req[r].resp.data.pagination.total = Cardinality(E)
         /\ \A k \in DOMAIN found :
              \E i \in E :
                /\ found[k].id = MockRestaurants[i].id
                /\ found[k].distance =
                     CalculateDistance(a.point, MockRestaurants[i].location.coordinates)
         /\ DefaultPaging(a) =>
              /\ Len(found) = Cardinality(E)
              /\ {found[k].id : k \in DOMAIN found} = {MockRestaurants[i].id : i \in E}
         /\ NonDecreasingDistance(found)
         /\ \A i \in DOMAIN MockRestaurants :
              (/\ CalculateDistance(a.point, MockRestaurants[i].location.coordinates) = 0
               /\ MatchesNearby(MockRestaurants[i], a)) => i \in E
  /\ \A list \in DistanceLists :
       NonDecreasingDistance(SortByDistance(list)) /\ SameItems(SortByDistance(list), list)

\* A search from the door of REST001 with the smallest radius found it at
\* distance 0, and a search from 15.79 km away with that very radius found it.
C13_Witness ==
  \E r \in Reqs :
    /\ Served(r, "nearby")
    /\ Len(req[r].resp.data.restaurants) = 1
    /\ \/ req[r].resp.data.restaurants[1].distance = 0
          /\ Has(req[r].arg, "radius") /\ req[r].arg.radius = MinRadius
       \/ Has(req[r].arg, "radius")
          /\ req[r].resp.data.restaurants[1].distance = req[r].arg.radius

\* The paginated listings of restaurants and bookings.
PagedOps == {"search", "nearby", "getBookings"}

\* The list a served listing request q answers with.
ItemsIn(q) ==
  IF q.op = "getBookings" THEN q.resp.data.bookings ELSE q.resp.data.restaurants

\* The whole ordered result of listing request q, before it is cut into pages.
OrderedResult(q) ==
  CASE q.op = "search" ->
         SortByRating(FilterSeq(MockRestaurants,
                                {i \in DOMAIN MockRestaurants :
                                   MatchesSearch(MockRestaurants[i], q.arg)}))
    [] q.op = "nearby" -> NearbyRestaurants(MockRestaurants, q.arg)
    [] q.op = "getBookings" ->
         LET order == NewestFirst({b \in DOMAIN bookings :
                          /\ bookings[b].user = q.user._id
                          /\ Has(q.arg, "type") => bookings[b].type = q.arg.type
                          /\ Has(q.arg, "status") => bookings[b].status = q.arg.status})
         IN [i \in DOMAIN order |-> Populate(bookings[order[i]])]

\* C14: a served listing with page P >= 1 and page size L >= 1 over an
\* ordered result of N items reports total = N and totalPages = ceil(N / L)
\* and carries the items at positions (P-1)*L+1 .. min(P*L, N) of the result;
\* beyond the last page the list is empty and the answer is still a success.
C14_Pagination ==
  \A r \in Reqs :
    (/\ req[r].op \in PagedOps /\ Served(r, req[r].op)
     /\ req[r].resp.data.pagination.page >= 1
     /\ req[r].resp.data.pagination.limit >= 1) =>
      LET pg == req[r].resp.data.pagination
          P == pg.page
          L == pg.limit
          all == OrderedResult(req[r])
          N == Len(all)
          items == ItemsIn(req[r])
          last == IF P * L < N THEN P * L ELSE N IN
      /\ pg.total = N
      /\ pg.totalPages * L >= N /\ (pg.totalPages - 1) * L < N
      /\ Len(items) = (IF last > (P - 1) * L THEN last - (P - 1) * L ELSE 0)
      /\ \A k \in DOMAIN items : items[k] = all[(P - 1) * L + k]
      /\ P > pg.totalPages => items = <<>>

\* A search was served its second page, shorter than the page size, and a
\* listing of bookings a page beyond the last one.
C14_Witness ==
  \E r \in Reqs :
    \/ /\ Served(r, "search")
       /\ req[r].resp.data.pagination.page = 2 /\ req[r].resp.data.pagination.limit = 2
       /\ req[r].resp.data.pagination.totalPages = 2
       /\ Len(req[r].resp.data.restaurants) = 1
    \/ /\ Served(r, "getBookings")
       /\ req[r].resp.data.pagination.total > 0
       /\ req[r].resp.data.pagination.page > req[r].resp.data.pagination.totalPages
       /\ req[r].resp.data.bookings = <<>>

\* t occurs in some tag of the list, letter case aside.
InSomeTag(tags, t) ==
  \E i \in DOMAIN tags : Includes(ToLowerCase(tags[i]), ToLowerCase(t))

\* Restaurant x satisfies every criterion query a supplies.
SatisfiesCriteria(x, a) ==
  /\ \/ Includes(ToLowerCase(x.location.city), ToLowerCase(a.location))
     \/ Includes(ToLowerCase(x.location.country), ToLowerCase(a.location))
  /\ Has(a, "cuisine") => InSomeTag(x.cuisine, a.cuisine)
  /\ Has(a, "priceRange") => x.priceRange = a.priceRange
  /\ Has(a, "rating") => x.rating >= a.rating
  /\ Has(a, "features") =>
       \E f \in DOMAIN Split(a.features) : InSomeTag(x.features, Split(a.features)[f])

\* C15: a served restaurant search finds a reference item if and only if it
\* satisfies every supplied criterion: the reported total is the number of
\* such items, every returned item is one, and under the default paging all
\* of them are returned; when none does, the list is empty and total is 0.
C15_SearchMatchesAll ==
  \A r \in Reqs :
    Served(r, "search") =>
      LET a == req[r].arg
          found == req[r].resp.data.restaurants
          E == {i \in DOMAIN MockRestaurants : SatisfiesCriteria(MockRestaurants[i], a)} IN
      /\ req[r].resp.data.pagination.total = Cardinality(E)
      /\ \A k \in DOMAIN found : \E i \in E : found[k] = MockRestaurants[i]
      /\ DefaultPaging(a) =>
           /\ Len(found) = Cardinality(E)
           /\ \A i \in E : \E k \in DOMAIN found : found[k] = MockRestaurants[i]
      /\ E = {} => found = <<>> /\ req[r].resp.data.pagination.total = 0

\* A search by country with a cuisine and a feature found exactly the one
\* restaurant that has both, and a search for a city of no restaurant found
\* none and was served.
C15_Witness ==
  \E r \in Reqs :
    /\ Served(r, "search")
    /\ \/ /\ Has(req[r].arg, "cuisine") /\ Has(req[r].arg, "features")
          /\ Len(req[r].resp.data.restaurants) = 1
          /\ Includes(ToLowerCase(req[r].resp.data.restaurants[1].location.country),
                      ToLowerCase(req[r].arg.location))
          /\ ~Includes(ToLowerCase(req[r].resp.data.restaurants[1].location.city),
                       ToLowerCase(req[r].arg.location))
       \/ /\ req[r].resp.data.pagination.total = 0
          /\ req[r].resp.data.restaurants = <<>>
          /\ DOMAIN req[r].arg = {"location"}

----------------------------------------------------------------------------
(* Validation before mutation *)

MutatingOps == {"register", "usersProfile", "authProfile", "preferences",
                "passport", "deleteAccount", "cancel"}

\* Request q breaks a field rule declared for its endpoint: a rule of the
\* route's validator chain or, for the fields an update writes, of the schema.
ViolatesFieldRule(q) ==
  CASE q.op = "register" -> ~RegisterValid(q.arg.firstName, q.arg.email, q.arg.password)
    [] q.op = "usersProfile" ->
         ~UpdateValid(Allowed(q.arg, {"firstName", "lastName", "phone", "dateOfBirth"}))
    [] q.op = "authProfile" ->
         ~UpdateValid(Allowed(q.arg, {"firstName", "lastName", "phone", "dateOfBirth",
                                      "preferences"}))
    [] q.op = "preferences" -> ~PreferencesValid(q.arg)
    [] q.op = "passport" -> ~PassportValid(q.arg)
    [] q.op = "deleteAccount" -> q.arg.password = PwEmpty
    [] q.op = "cancel" -> ~IsMongoId(q.arg.id)
    [] OTHER -> FALSE

\* C16: a request to a mutating endpoint that breaks a declared field rule
\* (and, where the route authenticates, carries a good token) is answered 400
\* with the validation errors, and the step that answers it leaves the stored
\* accounts and bookings as they were.
C16_InvalidInputIs400 ==
  [][\A r \in Reqs :
       (/\ Steps(r) /\ req'[r].pc = "done"
        /\ req'[r].op \in MutatingOps
        /\ req'[r].op = "register" \/ req'[r].user # NoDoc
        /\ ViolatesFieldRule(req'[r]))
       => /\ req'[r].resp = ValidationErrors
          /\ users' = users
          /\ bookings' = bookings]_vars

----------------------------------------------------------------------------
(* Requests under failures: a missing signing secret, a lost insert race,   *)
(* a failing account lookup in the authenticator, a booking that is gone    *)

InitFail ==
  /\ users = [u \in {1} |-> InitUsers[u]]
  /\ bookings = [b \in BookingIds |-> NewBooking(b, 1, "pending")]
  /\ nextId = 2
  /\ jwtSecret \in BOOLEAN
  /\ req = [r \in Reqs |-> Idle]
  /\ cancelOk = [b \in BookingIds |-> 0]
  /\ mockRestaurants = MockRestaurants
  /\ nodeEnv = "production"

\* GET /auth/me with a good, an expired or no token; the lookup may fail.
StartMeFailing(r) ==
  \E hdr \in {NoHeader, Bearer(Token(1)), Bearer(Expired(Token(1)))} :
    Authenticate(r, "me", hdr, NoToken, NoArg, BOOLEAN)

NextFail ==
  \/ \E r \in Reqs :
       \/ RegisterLookup(r)
       \/ RegisterSave(r)
  \/ \E r \in {1} :
       \/ Login(r)
       \/ StartMeFailing(r)
       \/ Me(r)
       \/ StartCancel(r)
       \/ CancelFind(r)
       \/ CancelSave(r)

SpecFail == InitFail /\ [][NextFail]_vars

\* The next step of the handler (or of a middleware) of the request in slot r.
Handle(r) ==
  \/ RegisterSave(r)
  \/ Me(r) \/ Logout(r) \/ Search(r) \/ Nearby(r)
  \/ CancelFind(r) \/ CancelSave(r)
  \/ GetBookings(r) \/ GetBooking(r) \/ GetByReference(r)
  \/ DeleteAccountVerify(r) \/ DeleteAccountCount(r)
  \/ DeleteAccountBookings(r) \/ DeleteAccountUser(r)
  \/ UsersProfile(r) \/ AuthProfile(r) \/ Preferences(r) \/ Passport(r)
  \/ Dashboard(r) \/ Authorize(r) \/ ListUsers(r)

\* The HTTP statuses of the envelope: success for 2xx, error otherwise.
EnvelopeStatuses == {200, 201, 400, 401, 403, 404, 500}

\* C17: a request gets exactly one response, an envelope: while it is being
\* handled nothing has been sent and its handler has a next step to take,
\* whatever failed before; once answered exactly one response has been sent,
\* with a status of the envelope.
C17_ExactlyOneEnvelope ==
  \A r \in Reqs :
    /\ req[r].sent <= 1
    /\ req[r].pc = "done" <=> req[r].sent = 1
    /\ req[r].pc = "done" => req[r].resp.status \in EnvelopeStatuses
    /\ req[r].pc \notin {"idle", "done"} =>
         /\ req[r].resp = NoResp
         /\ ENABLED Handle(r)

\* A registration that could not sign its token, a registration that lost the
\* race for its address, or a request whose account lookup failed in the
\* authenticator, each answered once with an error envelope.
C17_Witness ==
  \E r, q \in Reqs :
    /\ At(r, "register", "done") /\ req[r].resp = RegisterFailed /\ req[r].sent = 1
    /\ \/ ~jwtSecret /\ At(q, "me", "done") /\ req[q].resp = AuthInvalid
       \/ jwtSecret /\ At(q, "me", "done") /\ req[q].resp = AuthInvalid
          /\ Acceptable(Presented(req[q]))

----------------------------------------------------------------------------
(* Page numbers and page sizes *)

\* C18: whatever page and limit a request supplies, a listing that is served
\* starts at a non-negative offset of the ordered result and carries no more
\* items than the largest page size a validator admits.
C18_BoundedPaging ==
  \A r \in Reqs :
    (req[r].op \in PagedOps \cup {"listUsers"} /\ Served(r, req[r].op)) =>
      LET pg == req[r].resp.data.pagination
          items == IF req[r].op = "listUsers" THEN req[r].resp.data.users
                   ELSE ItemsIn(req[r]) IN
      /\ (pg.page - 1) * pg.limit >= 0
      /\ Len(items) <= MaxLimit

----------------------------------------------------------------------------
(* Order before pagination *)

\* The pages 1..n of the search with the criteria and the limit of query a,
\* one after the other.
RECURSIVE PagesUpTo(_, _)
PagesUpTo(a, n) ==
  IF n <= 0 THEN <<>>
  ELSE PagesUpTo(a, n - 1) \o SearchPage(mockRestaurants, Merge(a, [page |-> n])).restaurants

\* C19: for the criteria and the page size (at least 1) of a served search,
\* the pages 1..totalPages put one after the other hold every matching
\* restaurant exactly once, best rating first, the served page is the one
\* asked for, and the reference list is as it was at start.
C19_SortThenPaginate ==
  /\ mockRestaurants = MockRestaurants
  /\ nodeEnv = "production"
  /\ \A r \in Reqs :
       (Served(r, "search") /\ req[r].resp.data.pagination.limit >= 1) =>
         LET a == req[r].arg
             pg == req[r].resp.data.pagination
             all == PagesUpTo(a, pg.totalPages)
             E == {i \in DOMAIN MockRestaurants : SatisfiesCriteria(MockRestaurants[i], a)} IN
         /\ Len(all) = Cardinality(E)
         /\ \A i \in E : \E k \in DOMAIN all : all[k] = MockRestaurants[i]
         /\ \A j, k \in DOMAIN all : j < k => all[j].rating >= all[k].rating
         /\ (pg.page >= 1 /\ pg.page <= pg.totalPages) =>
              req[r].resp.data.restaurants =
                SearchPage(mockRestaurants, Merge(a, [page |-> pg.page])).restaurants

\* A search matching all three restaurants was served a page of size 1 or 2:
\* the result spans several pages and the list order differs from the rating
\* order.
C19_Witness ==
  \E r \in Reqs :
    /\ Served(r, "search")
    /\ req[r].resp.data.pagination.total = Len(MockRestaurants)
    /\ req[r].resp.data.pagination.totalPages >= 2
    /\ req[r].resp.data.pagination.page = 2
    /\ req[r].resp.data.restaurants # <<>>
    /\ MockRestaurants[1].rating < MockRestaurants[2].rating

----------------------------------------------------------------------------
(* models/Booking: saving a new document *)

\* The paths of BookingSchema declared required.
BookingRequired ==
  {"user", "type", "bookingReference", "status", "totalAmount", "currency", "bookingDetails"}

\* new Booking(fields): the schema defaults fill status and currency.
BookingDefaults(fields) ==
  [k \in DOMAIN fields \cup {"status", "currency"} |->
     IF k \in DOMAIN fields THEN fields[k]
     ELSE IF k = "status" THEN "pending" ELSE "USD"]

\* Document validation: the paths that fail.  required rejects a missing
\* value and, for a String path, the empty string; enum and min are checked
\* on the values present.
InvalidPaths(doc) ==
  {k \in BookingRequired : ~Has(doc, k)}
    \cup {k \in {"bookingReference"} \cap DOMAIN doc : doc[k] = <<>>}
    \cup {k \in {"type"} \cap DOMAIN doc : doc[k] \notin BookingTypes}
    \cup {k \in {"status"} \cap DOMAIN doc : doc[k] \notin Statuses}
    \cup {k \in {"totalAmount"} \cap DOMAIN doc : doc[k] < 0}

\* BookingSchema.pre('save'): a document without a reference gets one.
PreSave(doc, now, random) ==
  IF ~Given(doc, "bookingReference")
  THEN [k \in DOMAIN doc \cup {"bookingReference"} |->
          IF k = "bookingReference" THEN GenerateReference(doc.type, now, random)
          ELSE doc[k]]
  ELSE doc

\* The unique index on bookingReference.
DuplicateKey(doc) ==
  \E b \in DOMAIN bookings : bookings[b].bookingReference = doc.bookingReference

\* An error thrown to the caller of save(); no response is involved.
Thrown(name, paths) == Resp(0, name, [errors |-> paths])

\* Readings of Date.now() and the digits substr(2, 5) keeps of
\* Math.random().toString(36).
ClockReadings == {397, 1001}
RandomDigits == {<<"k", "7", "q", "0", "x">>, <<"0", "0", "b", "3", "m">>}

\* The documents server code may hand to new Booking(..).
References == {<<>>, <<"a", "b", "-", "1">>, <<"Q", "7">>}
NewBookings ==
  {Merge(Merge(Merge(Merge(t, b), a), u), d) :
     t \in {EmptyBody, [type |-> "flight"], [type |-> "car"]},
     b \in {EmptyBody} \cup {[bookingReference |-> x] : x \in References},
     a \in {EmptyBody, [totalAmount |-> 0 - 1], [totalAmount |-> 100]},
     u \in {EmptyBody, [user |-> 1]},
     d \in {EmptyBody, [bookingDetails |-> [seat |-> "12A"]]}}

\* document.save() of a new booking, called in slot r.  Mongoose validates
\* the document in a hook of its own that is registered ahead of the hooks
\* of the schema, so the pre('save') hook of BookingSchema runs on validated
\* documents only; then the document is inserted.  loc holds what was
\* stored.
SaveBooking(r) ==
  /\ Free(r)
  /\ Cardinality(DOMAIN bookings) < MaxBookings
  /\ \E fields \in NewBookings, now \in ClockReadings, random \in RandomDigits :
       LET id == Cardinality(DOMAIN bookings) + 1
           doc == BookingDefaults(Merge([_id |-> id], fields))
           hooked == PreSave(doc, now, random)
           call == [Idle EXCEPT !.op = "saveBooking", !.pc = "done", !.arg = fields] IN
       IF InvalidPaths(doc) # {}
       THEN /\ req' = [req EXCEPT ![r] = [call EXCEPT !.resp =
                         Thrown("ValidationError", InvalidPaths(doc))]]
            /\ UNCHANGED bookings
       ELSE IF DuplicateKey(hooked)
       THEN /\ req' = [req EXCEPT ![r] = [call EXCEPT !.resp =
                         Thrown("E11000", {"bookingReference"})]]
            /\ UNCHANGED bookings
       ELSE /\ req' = [req EXCEPT ![r] = [call EXCEPT !.loc = hooked]]
            /\ bookings' = [b \in DOMAIN bookings \cup {id} |->
                              IF b = id THEN hooked ELSE bookings[b]]
  /\ UNCHANGED <<users, nextId, jwtSecret, cancelOk, mockRestaurants, nodeEnv>>

InitSave ==
  /\ users = [u \in {1} |-> InitUsers[u]]
  /\ bookings = [b \in {} |-> NoDoc]
  /\ nextId = 2
  /\ jwtSecret = TRUE
  /\ req = [r \in Reqs |-> Idle]
  /\ cancelOk = [b \in BookingIds |-> 0]
  /\ mockRestaurants = MockRestaurants
  /\ nodeEnv = "production"

NextSave == \E r \in {1} : SaveBooking(r)

SpecSave == InitSave /\ [][NextSave]_vars

\* The document lacks a reference (absent or empty) and nothing else.
OnlyReferenceMissing(fields) ==
  /\ ~Given(fields, "bookingReference")
  /\ InvalidPaths(BookingDefaults(fields)) \subseteq {"bookingReference"}

\* TYPE-<time>-<random>, every letter upper-case.
GeneratedForm(ref, type) ==
  \E now \in ClockReadings, random \in RandomDigits :
    ref = ToUpperCase(TypeText(type)) \o <<"-">> \o ToUpperCase(ToString36(now))
            \o <<"-">> \o ToUpperCase(random)

\* C20: a save of a new booking that lacks only its reference stores the
\* booking, with a generated reference TYPE-<time>-<random> in upper case.
C20_SaveGeneratesReference ==
  [][\A r \in Reqs :
       (req'[r] # req[r] /\ req'[r].op = "saveBooking"
          /\ OnlyReferenceMissing(req'[r].arg)) =>
         \E b \in DOMAIN bookings' \ DOMAIN bookings :
           /\ bookings'[b] = req'[r].loc
           /\ GeneratedForm(bookings'[b].bookingReference, req'[r].arg.type)]_vars

----------------------------------------------------------------------------
(* The travel document of an account *)

\* The passport an account document holds (NoDoc: none).
PassportOf(doc) == IF Has(doc, "passport") THEN doc.passport ELSE NoDoc

\* The day a date string names, in either notation.
DayOf(s) == IF s < 0 THEN 0 - s ELSE s

\* C21: PUT /users/passport with a well-formed body, handled at clock reading
\* now: an expiry not later than now is answered 400 and the accounts are
\* left as they were; a passport is stored only with an expiry later than
\* now.  No step of any other handler sets or changes a passport.
C21_PassportExpiryInFuture ==
  [][\A r \in Reqs :
       Steps(r) =>
         IF At(r, "passport", "h0")
         THEN PassportValid(req[r].arg) =>
                \E now \in Times :
                  LET day == DayOf(req[r].arg.expiryDate) IN
                  /\ day <= now => (req'[r].resp.status = 400 /\ users' = users)
                  /\ users' # users =>
                       /\ day > now
                       /\ PassportOf(users'[req[r].user._id]).expiryDate = day
         ELSE \A u \in DOMAIN users' :
                PassportOf(users'[u]) = IF u \in DOMAIN users THEN PassportOf(users[u])
                                        ELSE NoDoc]_vars

----------------------------------------------------------------------------
(* Tokens of deleted accounts *)

\* A client holding the token of account u sends it in the header, in the
\* cookie or in both, to a route behind authenticate (GET /auth/me) or
\* behind optionalAuth (GET /restaurants/search).
StartWithToken(r) ==
  \E u \in DOMAIN InitUsers :
  \E hdr \in {NoHeader, Bearer(Token(u))}, cookie \in {NoToken, Token(u)} :
    \/ Authenticate(r, "me", hdr, cookie, NoArg, {FALSE})
    \/ OptionalAuth(r, "search", hdr, cookie, [location |-> <<>>], {FALSE})

\* Every booking is in a final status, so that the accounts can be deleted.
InitGone ==
  /\ users = InitUsers
  /\ \E st \in Terminal :
       bookings = [b \in BookingIds |-> NewBooking(b, IF b = 1 THEN 1 ELSE 2, st)]
  /\ nextId = 3
  /\ jwtSecret = TRUE
  /\ req = [r \in Reqs |-> Idle]
  /\ cancelOk = [b \in BookingIds |-> 0]
  /\ mockRestaurants = MockRestaurants
  /\ nodeEnv = "production"

NextGone ==
  \E r \in Reqs :
    \/ StartDeleteAccount(r)
    \/ DeleteAccountVerify(r)
    \/ DeleteAccountCount(r)
    \/ DeleteAccountBookings(r)
    \/ DeleteAccountUser(r)
    \/ StartWithToken(r)
    \/ Me(r)
    \/ Search(r)

SpecGone == InitGone /\ [][NextGone]_vars

\* The accounts whose deletion has been answered with success: the account
\* is removed in the step that sends the answer, and _ids are not reused.
Deleted == {u \in 1..(nextId - 1) : u \notin DOMAIN users}

\* C22: a request that arrives with a correctly signed, unexpired token of a
\* deleted account is answered 401 by authenticate, without the handler being
\* invoked, and goes on without an account behind optionalAuth.
C22_DeletedAccountTokenRejected ==
  [][\A r \in Reqs :
       (/\ Arrives(r)
        /\ req'[r].op \in ProtectedOps \cup {"search"}
        /\ JwtVerifies(Presented(req'[r]), jwtSecret)
        /\ Presented(req'[r]).uid \in Deleted)
       => IF req'[r].op \in ProtectedOps
          THEN /\ req'[r].pc = "done"
               /\ req'[r].resp.status = 401
               /\ req'[r].nextCalls = 0
               /\ req'[r].user = NoDoc
          ELSE /\ req'[r].user = NoDoc
               /\ req'[r].nextCalls = 1]_vars

\* After a deletion, the account's token was refused on GET /auth/me and a
\* search carrying it in the header went on anonymously.
C22_Witness ==
  \E r, q \in Reqs :
    /\ At(r, "me", "done") /\ req[r].resp = AuthNoUser
    /\ Presented(req[r]).uid \in Deleted
    /\ req[q].op = "search" /\ req[q].nextCalls = 1 /\ req[q].user = NoDoc
    /\ req[q].hdr = Bearer(Token(Presented(req[r]).uid))

----------------------------------------------------------------------------
(* Optional and mandatory authentication compared *)

\* C23: optionalAuth attaches an account to a request exactly when
\* authenticate would accept the request (the token it presents, in the
\* header or else in the cookie, verifies and its account is stored), and
\* then it attaches that account.
C23_OptionalSameAsMandatory ==
  [][\A r \in Reqs :
       (Arrives(r) /\ req'[r].op = "search")
       => LET tok == Presented(req'[r]) IN
          /\ req'[r].user # NoDoc <=> Acceptable(tok)
          /\ Acceptable(tok) => req'[r].user = FindUserNoPassword(tok.uid)]_vars

----------------------------------------------------------------------------
(* Every endpoint of the API: what happens to the stored bookings *)

\* One request to each endpoint other than the cancellation and the account
\* deletion, with the token of account u where the route asks for one; the
\* updates are account 1's and name a `bookings` key in their bodies.
StartOther(r) ==
  \E u \in DOMAIN InitUsers :
    \/ \E op \in {"me", "logout", "dashboard", "getBookings", "listUsers"} :
         Authenticate(r, op, Bearer(Token(u)), NoToken, EmptyBody, {FALSE})
    \/ \E id \in BookingIds :
         Authenticate(r, "getBooking", Bearer(Token(u)), NoToken, [id |-> id], {FALSE})
    \/ Authenticate(r, "getByReference", Bearer(Token(u)), NoToken,
                    [reference |-> BookingRef(1)], {FALSE})
    \/ \E op \in {"usersProfile", "authProfile"} :
         Authenticate(r, op, Bearer(Token(1)), NoToken,
                      [firstName |-> "Zed", bookings |-> <<>>], {FALSE})
    \/ Authenticate(r, "preferences", Bearer(Token(1)), NoToken,
                    [currency |-> "USD", bookings |-> <<>>], {FALSE})
    \/ Authenticate(r, "passport", Bearer(Token(1)), NoToken,
                    [number |-> "P1", expiryDate |-> MaxTime + 1, countryOfIssue |-> "FR"],
                    {FALSE})
    \/ OptionalAuth(r, "search", Bearer(Token(u)), NoToken,
                    [location |-> <<"u", "s", "a">>], {FALSE})
    \/ Arrive(r, "nearby", [point |-> "NewYork"])

\* Booking 1 belongs to account 1 and can be cancelled; booking 2 belongs
\* to account 2.
InitFrame ==
  /\ users = InitUsers
  /\ \E st \in {"confirmed", "completed"} :
       bookings = [b \in BookingIds |->
                     IF b = 1 THEN NewBooking(b, 1, "pending") ELSE NewBooking(b, 2, st)]
  /\ nextId = 3
  /\ jwtSecret = TRUE
  /\ req = [r \in Reqs |-> Idle]
  /\ cancelOk = [b \in BookingIds |-> 0]
  /\ mockRestaurants = MockRestaurants
  /\ nodeEnv = "production"

\* A cancellation of booking 1 by its owner, to run beside the other requests.
StartCancelOwn(r) ==
  Authenticate(r, "cancel", Bearer(Token(1)), NoToken, [id |-> 1], {FALSE})

\* Slot 1 serves every endpoint; slot 2 serves cancellations of booking 1,
\* which interleave with whatever slot 1 does.
NextFrame ==
  \/ \E r \in Reqs \ {1} :
       \/ StartCancelOwn(r)
       \/ CancelFind(r)
       \/ CancelSave(r)
  \/ \E r \in {1} :
       \/ StartCancel(r)
       \/ CancelFind(r)
       \/ CancelSave(r)
       \/ StartDeleteAccount(r)
       \/ DeleteAccountVerify(r)
       \/ DeleteAccountCount(r)
       \/ DeleteAccountBookings(r)
       \/ DeleteAccountUser(r)
       \/ StartOther(r)
       \/ GetBookings(r)
       \/ GetBooking(r)
       \/ GetByReference(r)
       \/ Me(r)
       \/ Logout(r)
       \/ Dashboard(r)
       \/ Authorize(r)
       \/ ListUsers(r)
       \/ UsersProfile(r)
       \/ AuthProfile(r)
       \/ Preferences(r)
       \/ Passport(r)
       \/ Search(r)
       \/ Nearby(r)
       \/ RegisterLookup(r)
       \/ RegisterSave(r)
       \/ Login(r)

SpecFrame == InitFrame /\ [][NextFrame]_vars

\* The stored bookings without those of account uid.
NotOwnedBy(uid) ==
  [b \in {x \in DOMAIN bookings : bookings[x].user # uid} |-> bookings[b]]

----------------------------------------------------------------------------
(* Bookings and their owners *)

\* C26: in every state, the states between the steps of an account deletion
\* and of the cancel requests running beside it included, the owner of
\* every stored booking is a stored account.
C26_OwnerIsStored ==
  \A b \in DOMAIN bookings : bookings[b].user \in DOMAIN users

\* A cancel request loaded its booking, the owner's account was deleted with
\* its bookings, and the save of the request found no document.
C26_Witness ==
  \E r \in Reqs :
    /\ At(r, "cancel", "done")
    /\ req[r].resp = Err(500, "Error cancelling booking")
    /\ req[r].user._id \notin DOMAIN users
    /\ req[r].arg.id \notin DOMAIN bookings

----------------------------------------------------------------------------
(* middleware/errorHandler *)

\* An error object: name, code, status, statusCode, message, stack, and for
\* a schema validation error the messages of its errors.  0 and "" stand for
\* a property that is not set; both are falsy, as undefined is.
NodeEnvs == {"development", "production", "test"}

\* Object.values(err.errors).map(val => val.message).join(', ')
JoinMessages(messages) ==
  IF messages = <<>> THEN ""
  ELSE IF Len(messages) = 1 THEN messages[1]
  ELSE IF messages[1] = "Email is required" THEN "Email is required, Password is required"
  ELSE "Password is required, Email is required"

\* The object `error` the handler ends with: the spread copy of err with
\* its message, replaced in turn by each branch whose test err passes.
ErrorFor(err) ==
  LET Made(name, message, status) ==
        [name |-> name, message |-> message, status |-> status, statusCode |-> 0]
      e0 == [name |-> err.name, message |-> err.message, status |-> err.status,
             statusCode |-> err.statusCode]
      e1 == IF err.name = "CastError" THEN Made("CastError", "Resource not found", 404) ELSE e0
      e2 == IF err.code = 11000
            THEN Made("ValidationError", "Duplicate field value entered", 400) ELSE e1
      e3 == IF err.name = "ValidationError"
            THEN Made("ValidationError", JoinMessages(err.errors), 400) ELSE e2
      e4 == IF err.name = "JsonWebTokenError"
            THEN Made("JsonWebTokenError", "Invalid token", 401) ELSE e3
  IN IF err.name = "TokenExpiredError"
     THEN Made("TokenExpiredError", "Token expired", 401) ELSE e4

ErrorStatusNoStatusCode(error) == IF error.status # 0 THEN error.status ELSE 500

\* error.status || error.statusCode || 500
ErrorStatus(error) ==
  IF error.status # 0 THEN error.status
  ELSE IF error.statusCode # 0 THEN error.statusCode ELSE 500

\* res.status(statusCode).json({ status, message, stack? })
ErrorResponse(err, env) ==
  Resp(ErrorStatus(ErrorFor(err)),
       IF ErrorFor(err).message # "" THEN ErrorFor(err).message ELSE "Server Error",
       IF env = "development" THEN [stack |-> err.stack] ELSE NoData)

\* The errors that reach the handler: a bad identifier, a duplicate key and
\* another server error of the store driver, a schema validation error with
\* its messages, the errors of jwt.verify, and errors of other libraries or
\* of the application, with and without a status of their own.
Errors ==
  {[name |-> n, code |-> c, status |-> s, statusCode |-> sc, message |-> m,
    stack |-> "Error: at handler", errors |-> e] :
     n \in {"CastError", "MongoServerError", "ValidationError", "JsonWebTokenError",
            "TokenExpiredError", "NotBeforeError", "Error", "SyntaxError"},
     c \in {0, 11000, 121}, s \in {0, 404, 422}, sc \in {0, 400, 503},
     m \in {"", "boom"},
     e \in {<<>>, <<"Email is required">>, <<"Password is required", "Email is required">>}}

\* The kinds an error object can be of: only the store driver's server
\* errors carry a code, and exactly the schema validation errors carry
\* errors.
WellFormed(err) ==
  /\ err.code # 0 <=> err.name = "MongoServerError"
  /\ err.errors # <<>> <=> err.name = "ValidationError"

\* next(err) reaches errorHandler for the request in slot r.
ErrorHandler(r) ==
  /\ Free(r)
  /\ \E err \in {e \in Errors : WellFormed(e)} :
       req' = [req EXCEPT ![r] =
                 Answered([Idle EXCEPT !.op = "error", !.arg = [err |-> err]],
                          ErrorResponse(err, nodeEnv))]
  /\ StoreUnchanged
  /\ UNCHANGED <<cancelOk, mockRestaurants, nodeEnv>>

InitErr ==
  /\ users = InitUsers
  /\ bookings = [b \in {} |-> NoDoc]
  /\ nextId = 3
  /\ jwtSecret = TRUE
  /\ req = [r \in Reqs |-> Idle]
  /\ cancelOk = [b \in BookingIds |-> 0]
  /\ mockRestaurants = MockRestaurants
  /\ nodeEnv \in NodeEnvs

NextErr == \E r \in {1} : ErrorHandler(r)

SpecErr == InitErr /\ [][NextErr]_vars

\* C25: the status of the response is 404 for a CastError, 400 for a
\* duplicate key (code 11000) and for a schema validation error, 401 for the
\* invalid-token and expired-token errors, and for every other error its
\* status, else its statusCode, else 500; the body has the stack exactly when
\* NODE_ENV is development.
C25_StatusByKind ==
  \A r \in Reqs :
    At(r, "error", "done") =>
      LET err == req[r].arg.err
          status == req[r].resp.status IN
      /\ CASE err.name = "CastError" -> status = 404
           [] err.code = 11000 -> status = 400
           [] err.name = "ValidationError" -> status = 400
           [] err.name \in {"JsonWebTokenError", "TokenExpiredError"} -> status = 401
           [] OTHER -> status = IF err.status # 0 THEN err.status
                                ELSE IF err.statusCode # 0 THEN err.statusCode ELSE 500
      /\ Has(req[r].resp.data, "stack") <=> nodeEnv = "development"

\* In development an error of no special kind that has a statusCode and no
\* status was answered with that code and its stack.
C25_Witness ==
  \E r \in Reqs :
    /\ At(r, "error", "done")
    /\ req[r].arg.err.name = "Error"
    /\ req[r].arg.err.status = 0 /\ req[r].resp.status = 503
    /\ Has(req[r].resp.data, "stack")

----------------------------------------------------------------------------
(* Account updates: identity and privilege *)

UpdateOps == {"usersProfile", "authProfile", "preferences", "passport"}

\* C27: no step changes the role, the email address or the password hash of
\* a stored account, whatever the bodies of the update requests name, and a
\* step of an update handler changes no account but its caller's.
C27_IdentityUnchanged ==
  [][/\ \A u \in DOMAIN users \cap DOMAIN users' :
          /\ users'[u].role = users[u].role
          /\ users'[u].email = users[u].email
          /\ users'[u].password = users[u].password
     /\ \A r \in Reqs :
          (Steps(r) /\ req[r].op \in UpdateOps /\ req[r].pc = "h0")
          => /\ DOMAIN users' = DOMAIN users
             /\ \A u \in DOMAIN users \ {req[r].user._id} : users'[u] = users[u]]_vars

\* An update whose body also named role, email and password was applied:
\* the first name changed and the account is otherwise who it was.
C27_Witness ==
  \E r \in Reqs :
    /\ req[r].op \in {"usersProfile", "authProfile"} /\ req[r].pc = "done"
    /\ req[r].resp.status = 200
    /\ {"role", "email", "password"} \subseteq DOMAIN req[r].arg
    /\ users[1].firstName = req[r].arg.firstName
    /\ users[1].firstName # InitUsers[1].firstName
    /\ users[1].role = "user" /\ users[1].email = EmailA

----------------------------------------------------------------------------
(* Preference updates side by side *)

\* Account 1 updates its preferences, one field at a time; authenticate
\* loads the account, preferences included, when the request arrives.
StartPreferences(r) ==
  \E body \in {[currency |-> "EUR"], [language |-> "fr"], [notifications |-> FALSE],
               [currency |-> "GBP", language |-> "de"]} :
    Authenticate(r, "preferences", Bearer(Token(1)), NoToken, body, {FALSE})

InitPref ==
  /\ users = InitUsers
  /\ bookings = [b \in {} |-> NoDoc]
  /\ nextId = 3
  /\ jwtSecret = TRUE
  /\ req = [r \in Reqs |-> Idle]
  /\ cancelOk = [b \in BookingIds |-> 0]
  /\ mockRestaurants = MockRestaurants
  /\ nodeEnv = "production"

NextPref ==
  \E r \in Reqs :
    \/ StartPreferences(r)
    \/ Preferences(r)

SpecPref == InitPref /\ [][NextPref]_vars

\* C28: the write of PUT /users/preferences leaves every preference field
\* the request does not supply at the value the store holds when the write
\* is applied.
C28_UnnamedPreferencesKept ==
  [][\A r \in Reqs :
       (At(r, "preferences", "h0") /\ Steps(r) /\ req'[r].resp.status = 200)
       => \A k \in DOMAIN DefaultPreferences \ DOMAIN req[r].arg :
            users'[req[r].user._id].preferences[k]
              = users[req[r].user._id].preferences[k]]_vars

----------------------------------------------------------------------------
(* Registration answered with an error *)

\* C29: the step in which a register request is answered 400 or 500 leaves
\* the accounts as they were, and after a 500 no account with the submitted
\* address is stored unless it was stored before.
C29_RegisterAllOrNothing ==
  [][\A r \in Reqs :
       (Steps(r) /\ req'[r].op = "register" /\ req'[r].pc = "done"
          /\ req'[r].resp.status \in {400, 500})
       => /\ users' = users
          /\ \A u \in DOMAIN users' :
               users'[u].email = req'[r].arg.email => u \in DOMAIN users]_vars

====
